---- MODULE Spec2Model ----
(***************************************************************************)
(* Model of the ClickHouse monitoring system:                              *)
(*   - the resilient query executor  (clickhouse_client/client.py)         *)
(*   - the slow-query collector      (monitor/.../collect_metrics.py)      *)
(*   - the triage of one slow query  (query_lab/views.py)                  *)
(*   - the EXPLAIN analysis of a query (query_lab/advanced_analyzer.py)    *)
(*   - the analysis runs that store results (query_lab/analysis_service.py *)
(*     and monitor/.../advanced_analysis.py), alone and overlapping        *)
(*   - the checks of the SQL text (query_lab/optimization_guide.py and     *)
(*     the static checks of advanced_analyzer.py)                          *)
(*   - the monitoring loop (monitor/.../start_monitoring.py)               *)
(* Each component has its own specification (SpecExec, SpecColl,           *)
(* SpecTriage, SpecAnalyzer, SpecStore, SpecOverlap, SpecGuide,            *)
(* SpecStatic, SpecMonitor and SpecMonitorFair); the variables of the      *)
(* other components stay at their initial values.                          *)
(***************************************************************************)
EXTENDS Integers, Sequences, FiniteSets, TLC

(***************************************************************************)
(* Bounds of the model                                                     *)
(***************************************************************************)
MaxRetriesBound == 2   \* max_retries ranges over -1 .. MaxRetriesBound
MaxDelay == 1          \* retry_delay ranges over 0 .. MaxDelay
MaxCalls == 2          \* execute_query calls made on one client
MaxRows == 1           \* rows of a successful driver result: 0 .. MaxRows
MaxBatch == 2          \* rows returned by one slow-query request: 0 .. MaxBatch
MaxRuns == 2           \* collect_metrics runs
MaxClock == 3          \* operator requests made on one SlowQuery case
MaxLines == 3          \* lines of the EXPLAIN indexes = 1 output: 0 .. MaxLines
MaxPasses == 4         \* analysis runs made on one QueryLog record
MaxDay == 1            \* days that pass between the analysis runs: 0 .. MaxDay
MaxGuideCalls == 3     \* analyze_query calls made

VARIABLES
    \* ---- ClickHouseClient (client.py) ----
    max_retries,     \* self.max_retries
    retry_delay,     \* self.retry_delay
    client,          \* self._client: 0 is None, n > 0 the n-th driver object built
    driversCreated,  \* number of ClickhouseDriver(**config) constructions so far
    pc,              \* position of execute_query: "idle", "loop", "returned"
    attempt,         \* loop variable of `for attempt in range(max_retries + 1)`
    sendLog,         \* the driver execute() calls of the current execute_query
    sleptAfter,      \* loop indexes after which time.sleep(retry_delay) ran
    slept,           \* total time slept in the current execute_query
    result,          \* what the current/last execute_query returned
    session,         \* with-block: "none", "entered", "enterRaised", "exited"
    exitPath,        \* how the with-block was left: "none", "normal", "exception"
    disconnectLog,   \* outcome of disconnect(): "none", "noop", "ok", "warned"
    calls,           \* execute_query calls made so far
    \* ---- persisted tables (monitor/models.py, query_lab/models.py) ----
    queryLogs,       \* QueryLog rows in creation order; the index is the pk
    slowQueries,     \* SlowQuery rows in creation order
    instances,       \* names of the ClickHouseInstance rows
    \* ---- one collect_metrics run (collect_metrics.py) ----
    cpc,             \* position of the run: "idle", "query", "rows", "cases"
    dry_run,         \* options['dry_run'] of the current / last run
    tRows,           \* result.data of the slow-query request of that run
    rowIdx,          \* index of the next row of tRows to process
    slow_queries,    \* the list collect_slow_queries builds (pks; 0 in a dry run)
    stats,           \* the stats dict of collect_metrics
    \* ---- log of the runs, read by the properties only ----
    runs,            \* number of runs started
    runLog,          \* what the current / last run did
    prevLog,         \* how the run before it ended
    lastOp,          \* the last save_query_log of the current / last run
    \* ---- one SlowQuery case (query_lab/models.py, views.py) ----
    status,              \* slow_query.status
    assigned_to,         \* slow_query.assigned_to ("none" for NULL)
    analysis_started_at, \* slow_query.analysis_started_at (0 for NULL)
    optimized_at,        \* slow_query.optimized_at (0 for NULL)
    recorded,            \* which forms have saved their fields on the case
    clock,               \* time of the last request handled
    \* ---- log of the requests, read by the properties only ----
    tLog,                \* the last request and the timestamp writes so far
    \* ---- one analysis of AdvancedQueryAnalyzer (advanced_analyzer.py) ----
    apc,                 \* position: "indexes", "plan", "pipeline", "score",
                         \* "report", "done"
    indexes_lines,       \* safe_explain("indexes = 1")
    plan_lines,          \* safe_explain("PLAN")
    pipeline_steps,      \* len(safe_explain("PIPELINE"))
    explain_data,        \* the dict get_explain_plan returns
    complexity_score,    \* analysis['complexity_score'] of analyze_with_explain
    report_score,        \* report['complexity_score'] (-1 before the report)
    \* ---- log of the EXPLAIN requests, read by the properties only ----
    explainLog,          \* the requests issued and what the executor gave
    \* ---- stored analysis results (query_lab/models.py) ----
    analysisResults,     \* QueryAnalysisResult rows in creation order
    tableAnalyses,       \* TableAnalysis rows in creation order
    indexRecs,           \* IndexRecommendation rows in creation order
    today,               \* timezone.now(), in days
    \* ---- log of the analysis runs, read by the properties only ----
    passes,              \* number of analysis runs made
    passLog,             \* what the last run did
    storedOn,            \* per QueryAnalysisResult row: day of its last write
    tableSaves,          \* per table: runs that saved its profile
    detections,          \* per (table, column, kind): detections made
    \* ---- two overlapping save_table_analysis calls (advanced_analysis.py) ----
    ovTables,            \* TableAnalysis rows in creation order
    ovRecs,              \* IndexRecommendation rows in creation order
    ovRun,               \* per run: its position and its local variables
    \* ---- checks of the SQL text (optimization_guide.py, advanced_analyzer.py) ----
    guideLog,            \* the analyze_query calls made: text and result
    seen_recommendations, \* the local set of the last analyze_query call
    staticLog,           \* the last analyze_with_explain call and its warnings
    \* ---- the loop of start_monitoring (start_monitoring.py) ----
    mpc,                 \* position: "top", "collecting", "returned",
                         \* "sleeping", "stopped", "crashed"
    interval,            \* options['interval'], in seconds
    lookback_minutes,    \* the lookback_minutes passed to collect_metrics
    elapsed,             \* seconds between start_time and the return of the run
    sleep_time,          \* max(interval - elapsed, 0)
    \* ---- log of the cycles, read by the properties only ----
    inFlight,            \* collect_metrics runs started and not yet returned
    cycleOutcome,        \* how the current / last run went
    prevOutcome,         \* how the run before it went
    lastWait             \* what followed the last run: "slept", "skipped"

execVars == <<max_retries, retry_delay, client, driversCreated, pc, attempt,
              sendLog, sleptAfter, slept, result, session, exitPath,
              disconnectLog, calls>>

collVars == <<queryLogs, slowQueries, instances, cpc, dry_run, tRows, rowIdx,
              slow_queries, stats, runs, runLog, prevLog, lastOp>>

triageVars == <<status, assigned_to, analysis_started_at, optimized_at,
                recorded, clock, tLog>>

analyzerVars == <<apc, indexes_lines, plan_lines, pipeline_steps,
                  explain_data, complexity_score, report_score, explainLog>>

storeVars == <<analysisResults, tableAnalyses, indexRecs, today, passes,
               passLog, storedOn, tableSaves, detections>>

overlapVars == <<ovTables, ovRecs, ovRun>>

guideVars == <<guideLog, seen_recommendations, staticLog>>

monitorVars == <<mpc, interval, lookback_minutes, elapsed, sleep_time, inFlight, cycleOutcome, prevOutcome, lastWait>>

vars == <<execVars, collVars, triageVars, analyzerVars, storeVars, overlapVars, guideVars, monitorVars>>

\* the variables the executor's actions leave alone
nonExecVars == <<collVars, triageVars, analyzerVars, storeVars, overlapVars, guideVars, monitorVars>>

\* the variables the collector's actions leave alone
nonCollVars == <<execVars, triageVars, analyzerVars, storeVars, overlapVars, guideVars, monitorVars>>

\* the variables the triage views leave alone
nonTriageVars == <<execVars, collVars, analyzerVars, storeVars, overlapVars, guideVars, monitorVars>>

\* the variables the analyzer leaves alone
nonAnalyzerVars == <<execVars, collVars, triageVars, storeVars, overlapVars, guideVars, monitorVars>>

\* the variables the analysis runs leave alone
nonStoreVars == <<execVars, collVars, triageVars, analyzerVars, overlapVars, guideVars, monitorVars>>

\* the variables the overlapping runs leave alone
nonOverlapVars == <<execVars, collVars, triageVars, analyzerVars, storeVars, guideVars, monitorVars>>

\* the variables the text checks leave alone
nonGuideVars == <<execVars, collVars, triageVars, analyzerVars, storeVars, overlapVars, monitorVars>>

\* the variables the monitoring loop leaves alone
nonMonitorVars == <<execVars, collVars, triageVars, analyzerVars, storeVars, overlapVars, guideVars>>

(***************************************************************************)
(* Resilient Query Executor                                                *)
(***************************************************************************)

\* The exception classes the driver's execute() can raise, besides succeeding.
\* NetworkError (dropped / refused connection, socket timeout) and
\* ServerException (the engine rejects the statement, e.g. malformed SQL) are
\* both subclasses of clickhouse_driver.errors.Error; OtherException stands
\* for anything that is not (TypeError, ValueError, ...).
DriverOutcomes == {"ok", "NetworkError", "ServerException", "OtherException"}

\* The classes caught by `except ClickhouseError` (clickhouse_driver.errors.Error).
ClickhouseErrorKinds == {"NetworkError", "ServerException"}

\* `except ClickhouseError as e` matches the exception
IsClickhouseError(kind) == kind \in ClickhouseErrorKinds

\* len(range(max_retries + 1)): the number of loop iterations available
RangeLen(mr) == IF mr + 1 > 0 THEN mr + 1 ELSE 0

IsLastAttemptEarly(att, mr) == att >= mr - 1

\* `if attempt == self.max_retries`
IsLastAttempt(att, mr) == att = mr

\* QueryResult(data=[], columns=[], execution_time=..., error=error_msg)
ErrorResult == [kind |-> "QueryResult", error |-> TRUE, rows |-> 0, cols |-> 0]

\* QueryResult(data=data, columns=columns, ...) of a successful attempt;
\* with_column_types=True: the driver returns (data, columns_with_types)
OkResult(n) == [kind |-> "QueryResult", error |-> FALSE, rows |-> n, cols |-> 1]

\* __init__(self, instance_name='default', max_retries=3, retry_delay=1.0)
DefaultMaxRetries == 3
DefaultRetryDelay == 1

\* the for loop ends without a return statement: the function returns None
NoneResult == [kind |-> "None", error |-> FALSE, rows |-> 0, cols |-> 0]

\* no call has returned yet
NoResult == [kind |-> "none", error |-> FALSE, rows |-> 0, cols |-> 0]

\* connect(): no-op when self._client is not None, else a new driver object
Connect(cl, created) == IF cl # 0 THEN cl ELSE created + 1

\* the number of driver objects built after connect()
CreatedAfterConnect(cl, created) == IF cl # 0 THEN created ELSE created + 1

AfterDisconnectNoFinally(cl, ok) == IF ok THEN 0 ELSE cl

\* disconnect(): `finally: self._client = None`
AfterDisconnect(cl, ok) == 0

\* disconnect(): what it logs; a failing driver disconnect is logged, not raised
DisconnectOutcome(cl, ok) ==
    IF cl = 0 THEN "noop" ELSE IF ok THEN "ok" ELSE "warned"

\* __enter__: connect(), which raises ClickHouseConnectionError when the
\* driver object cannot be built; then the with-block is not entered
Enter ==
    /\ UNCHANGED nonExecVars
    /\ session = "none"
    /\ pc = "idle"
    /\ calls = 0
    /\ \E ok \in BOOLEAN :
         IF ok
         THEN /\ client' = Connect(client, driversCreated)
              /\ driversCreated' = CreatedAfterConnect(client, driversCreated)
              /\ session' = "entered"
         ELSE /\ session' = "enterRaised"
              /\ UNCHANGED <<client, driversCreated>>
    /\ UNCHANGED <<max_retries, retry_delay, pc, attempt, sendLog, sleptAfter,
                   slept, result, exitPath, disconnectLog, calls>>

\* execute_query is called: start_time is taken and the loop is entered; with
\* max_retries + 1 <= 0 the loop body never runs and the function returns None
Call ==
    /\ UNCHANGED nonExecVars
    /\ pc \in {"idle", "returned"}
    /\ session \in {"none", "entered"}
    /\ calls < MaxCalls
    /\ calls' = calls + 1
    /\ attempt' = 0
    /\ sendLog' = <<>>
    /\ sleptAfter' = {}
    /\ slept' = 0
    /\ IF RangeLen(max_retries) = 0
       THEN pc' = "returned" /\ result' = NoneResult
       ELSE pc' = "loop" /\ result' = NoResult
    /\ UNCHANGED <<max_retries, retry_delay, client, driversCreated, session,
                   exitPath, disconnectLog>>

\* one iteration: connect() raises ClickHouseConnectionError, which is not a
\* ClickhouseError: `except Exception` returns the error result at once
AttemptConnectFail ==
    /\ UNCHANGED nonExecVars
    /\ pc = "loop"
    /\ client = 0
    /\ result' = ErrorResult
    /\ pc' = "returned"
    /\ UNCHANGED <<max_retries, retry_delay, client, driversCreated, attempt,
                   sendLog, sleptAfter, slept, session, exitPath,
                   disconnectLog, calls>>

\* one iteration: connect(), the driver executes the query and returns rows
AttemptOk ==
    /\ UNCHANGED nonExecVars
    /\ pc = "loop"
    /\ \E n \in 0 .. MaxRows :
         /\ sendLog' = Append(sendLog,
                [client |-> Connect(client, driversCreated), outcome |-> "ok"])
         /\ result' = OkResult(n)
    /\ client' = Connect(client, driversCreated)
    /\ driversCreated' = CreatedAfterConnect(client, driversCreated)
    /\ pc' = "returned"
    /\ UNCHANGED <<max_retries, retry_delay, attempt, sleptAfter, slept,
                   session, exitPath, disconnectLog, calls>>

\* one iteration: connect(), the driver raises; a ClickhouseError on the last
\* attempt returns the error result, on an earlier attempt sleeps and goes on
\* with the next iteration; anything else returns the error result at once
AttemptRaise ==
    /\ UNCHANGED nonExecVars
    /\ pc = "loop"
    /\ \E kind \in DriverOutcomes \ {"ok"} :
         /\ sendLog' = Append(sendLog,
                [client |-> Connect(client, driversCreated), outcome |-> kind])
         /\ IF IsClickhouseError(kind)
            THEN IF IsLastAttempt(attempt, max_retries)
                 THEN /\ result' = ErrorResult
                      /\ pc' = "returned"
                      /\ UNCHANGED <<attempt, sleptAfter, slept>>
                 ELSE /\ sleptAfter' = sleptAfter \cup {attempt}
                      /\ slept' = slept + retry_delay
                      /\ attempt' = attempt + 1
                      /\ IF attempt + 1 < RangeLen(max_retries)
                         THEN pc' = "loop" /\ UNCHANGED result
                         ELSE pc' = "returned" /\ result' = NoneResult
            ELSE /\ result' = ErrorResult
                 /\ pc' = "returned"
                 /\ UNCHANGED <<attempt, sleptAfter, slept>>
    /\ client' = Connect(client, driversCreated)
    /\ driversCreated' = CreatedAfterConnect(client, driversCreated)
    /\ UNCHANGED <<max_retries, retry_delay, session, exitPath, disconnectLog,
                   calls>>

\* the with-block is left, normally or by an exception raised inside it:
\* __exit__ calls disconnect() and returns None, so an exception goes on
Exit ==
    /\ UNCHANGED nonExecVars
    /\ session = "entered"
    /\ pc \in {"idle", "returned"}
    /\ \E exc \in BOOLEAN, ok \in BOOLEAN :
         /\ exitPath' = IF exc THEN "exception" ELSE "normal"
         /\ disconnectLog' = DisconnectOutcome(client, ok)
         /\ client' = AfterDisconnect(client, ok)
    /\ session' = "exited"
    /\ UNCHANGED <<max_retries, retry_delay, driversCreated, pc, attempt,
                   sendLog, sleptAfter, slept, result, calls>>

NextExec ==
    \/ Enter
    \/ Call
    \/ AttemptConnectFail
    \/ AttemptOk
    \/ AttemptRaise
    \/ Exit



(***************************************************************************)
(* Collector: collect_metrics                                              *)
(***************************************************************************)

\* The rows the slow-query request can return (system_queries.get_slow_queries:
\* 13 columns, every duration above the threshold). A malformed row is one
\* parse_query_log_row cannot map: a wrong field count or a start time that
\* is no datetime.
QueryIds == {"q1", "q2"}

RowMetrics == {[duration_ms |-> 1500, read_rows |-> 10],
               [duration_ms |-> 2500, read_rows |-> 20]}

MalformedRow ==
    [wellFormed |-> FALSE, query_id |-> "q1", duration_ms |-> 1500, read_rows |-> 10]

TelemetryRows ==
    {[wellFormed |-> TRUE, query_id |-> q, duration_ms |-> m.duration_ms,
      read_rows |-> m.read_rows] : q \in QueryIds, m \in RowMetrics}
    \cup {MalformedRow}

RowSeqs == UNION {[1 .. n -> TelemetryRows] : n \in 0 .. MaxBatch}

\* total_queries as the statistics request reports it
TotalCounts == {0, 7}

\* stats = {'total_queries': 0, 'slow_queries': 0, 'new_slow_queries': 0, 'errors': 0}
InitialStats ==
    [total_queries |-> 0, slow_queries |-> 0, new_slow_queries |-> 0, errors |-> 0]

\* collect_slow_queries(self, client, instance, lookback_minutes, threshold_ms,
\* limit, dry_run) has no name `stats` in scope: the handler's
\* `stats['errors'] += 1` raises NameError
StatsInScope == FALSE

\* parse_query_log_row: the dict built from a row
ParseRow(row) ==
    [query_id |-> row.query_id, duration_ms |-> row.duration_ms,
     read_rows |-> row.read_rows]

FindNothing(ql, qid) == {}

\* the lookup of QueryLog.objects.get_or_create(query_id=...): the stored
\* records with that query_id
FindByQueryId(ql, qid) == {i \in 1 .. Len(ql) : ql[i].query_id = qid}

UpdateMetricsKeepDuration(rec, data) ==
    [rec EXCEPT !.read_rows = data.read_rows]

\* `if not created:` the existing record takes the new metrics
UpdateMetrics(rec, data) ==
    [rec EXCEPT !.duration_ms = data.duration_ms, !.read_rows = data.read_rows]

NoOp == [kind |-> "none", pk |-> 0, data |-> ParseRow(MalformedRow),
         lenBefore |-> 0, oldDuration |-> 0]

\* save_query_log(query_data) on the table ql; saveOk: the database accepts
\* the write. Gives the table afterwards, the pk saved and whether the call
\* raised (get_or_create finding several records raises too).
SaveQueryLog(ql, data, saveOk) ==
    LET found == FindByQueryId(ql, data.query_id) IN
    IF found = {}
    THEN IF saveOk
         THEN [raised |-> FALSE, ql |-> Append(ql, data), pk |-> Len(ql) + 1,
               created |-> TRUE]
         ELSE [raised |-> TRUE, ql |-> ql, pk |-> 0, created |-> FALSE]
    ELSE IF Cardinality(found) = 1 /\ saveOk
         THEN LET pk == CHOOSE i \in found : TRUE IN
              [raised |-> FALSE, ql |-> [ql EXCEPT ![pk] = UpdateMetrics(ql[pk], data)],
               pk |-> pk, created |-> FALSE]
         ELSE [raised |-> TRUE, ql |-> ql, pk |-> 0, created |-> FALSE]

\* SlowQuery.objects.filter(query_log=query_log).exists()
SlowQueryExists(sq, pk) == \E i \in 1 .. Len(sq) : sq[i].query_log = pk

\* create_slow_query_records(slow_queries) on the table sq: the table
\* afterwards and new_records
RECURSIVE CreateSlowQueryRecords(_, _)
CreateSlowQueryRecords(sq, list) ==
    IF list = <<>>
    THEN [sq |-> sq, new |-> 0]
    ELSE IF ~SlowQueryExists(sq, Head(list))
         THEN LET rest == CreateSlowQueryRecords(
                              Append(sq, [query_log |-> Head(list), status |-> "new"]),
                              Tail(list))
              IN [sq |-> rest.sq, new |-> rest.new + 1]
         ELSE CreateSlowQueryRecords(sq, Tail(list))

InitialRunLog ==
    [end |-> "none", outcome |-> "none", sameRows |-> FALSE, qlBefore |-> 0,
     sqBefore |-> 0, created |-> {}, rowErrors |-> 0,
     tablesBefore |-> <<<<>>, <<>>, {}>>]

\* options['instance'], default 'default'
InstanceName == "default"

\* ClickHouseInstance.objects.get_or_create(name=instance_name, defaults=...)
\* in handle(), before dry_run is looked at
GetOrCreateInstance(inst, name) == inst \cup {name}

InitialPrevLog == [end |-> "none", outcome |-> "none", dry_run |-> FALSE]

\* handle(): the instance row is fetched or created, collect_metrics starts,
\* stats is initialised and the with-block is entered; a
\* ClickHouseConnectionError of __enter__ is caught by handle
StartRun ==
    /\ UNCHANGED nonCollVars
    /\ cpc = "idle"
    /\ runs < MaxRuns
    /\ runs' = runs + 1
    /\ prevLog' = [end |-> runLog.end, outcome |-> runLog.outcome, dry_run |-> dry_run]
    /\ stats' = InitialStats
    /\ slow_queries' = <<>>
    /\ rowIdx' = 1
    /\ lastOp' = NoOp
    /\ \E dry \in BOOLEAN, connected \in BOOLEAN :
         /\ dry_run' = dry
         /\ runLog' = [InitialRunLog EXCEPT
                          !.qlBefore = Len(queryLogs),
                          !.sqBefore = Len(slowQueries),
                          !.tablesBefore = <<queryLogs, slowQueries, instances>>,
                          !.end = IF connected THEN "none" ELSE "raised"]
         /\ cpc' = IF connected THEN "query" ELSE "idle"
    /\ instances' = GetOrCreateInstance(instances, InstanceName)
    /\ UNCHANGED <<queryLogs, slowQueries, tRows>>

\* collect_slow_queries: execute_query returns an error: it is logged and the
\* empty list is returned
SlowQueryFails ==
    /\ UNCHANGED nonCollVars
    /\ cpc = "query"
    /\ runLog' = [runLog EXCEPT !.outcome = "error"]
    /\ tRows' = <<>>
    /\ cpc' = "cases"
    /\ UNCHANGED <<queryLogs, slowQueries, instances, dry_run, rowIdx,
                   slow_queries, stats, runs, prevLog, lastOp>>

\* collect_slow_queries: execute_query returns the rows
SlowQueryReturns ==
    /\ UNCHANGED nonCollVars
    /\ cpc = "query"
    /\ \E rows \in RowSeqs :
         /\ tRows' = rows
         /\ runLog' = [runLog EXCEPT
                          !.outcome = "rows",
                          !.sameRows = (prevLog.outcome = "rows" /\ rows = tRows)]
         /\ cpc' = IF rows = <<>> THEN "cases" ELSE "rows"
    /\ UNCHANGED <<queryLogs, slowQueries, instances, dry_run, rowIdx,
                   slow_queries, stats, runs, prevLog, lastOp>>

\* one iteration of `for row in result.data`: parse, save (unless dry run),
\* append; an exception reaches the handler, whose `stats['errors'] += 1`
\* raises NameError: it leaves collect_metrics through the with-block and
\* is caught by handle
ProcessRow ==
    /\ UNCHANGED nonCollVars
    /\ cpc = "rows"
    /\ rowIdx <= Len(tRows)
    /\ \E saveOk \in BOOLEAN :
         LET row == tRows[rowIdx]
             data == ParseRow(row)
             saved == SaveQueryLog(queryLogs, data, saveOk)
             raised == ~row.wellFormed \/ (~dry_run /\ saved.raised)
             goOn == IF rowIdx = Len(tRows) THEN "cases" ELSE "rows"
         IN
         IF raised
         THEN /\ UNCHANGED <<queryLogs, slow_queries>>
              /\ lastOp' = [NoOp EXCEPT !.kind = "error"]
              /\ IF StatsInScope
                 THEN /\ stats' = [stats EXCEPT !.errors = @ + 1]
                      /\ runLog' = [runLog EXCEPT !.rowErrors = @ + 1]
                      /\ rowIdx' = rowIdx + 1
                      /\ cpc' = goOn
                 ELSE /\ runLog' = [runLog EXCEPT !.rowErrors = @ + 1,
                                                  !.end = "raised"]
                      /\ cpc' = "idle"
                      /\ UNCHANGED <<stats, rowIdx>>
         ELSE /\ IF dry_run
                 THEN /\ slow_queries' = Append(slow_queries, 0)
                      /\ UNCHANGED <<queryLogs, runLog, lastOp>>
                 ELSE /\ queryLogs' = saved.ql
                      /\ slow_queries' = Append(slow_queries, saved.pk)
                      /\ runLog' = IF saved.created
                                   THEN [runLog EXCEPT !.created = @ \cup {saved.pk}]
                                   ELSE runLog
                      /\ lastOp' = [kind |-> IF saved.created THEN "created" ELSE "updated",
                                    pk |-> saved.pk, data |-> data,
                                    lenBefore |-> Len(queryLogs),
                                    oldDuration |-> IF saved.created THEN 0
                                                    ELSE queryLogs[saved.pk].duration_ms]
              /\ rowIdx' = rowIdx + 1
              /\ cpc' = goOn
              /\ UNCHANGED stats
    /\ UNCHANGED <<slowQueries, instances, dry_run, tRows, runs, prevLog>>

\* the rest of collect_metrics: stats['slow_queries'], the SlowQuery records
\* (unless dry run), the statistics and system-metrics requests (an error
\* result leaves total_queries at 0), the end of the with-block, return stats
FinishRun ==
    /\ UNCHANGED nonCollVars
    /\ cpc = "cases"
    /\ \E total \in TotalCounts :
         LET made == CreateSlowQueryRecords(slowQueries, slow_queries) IN
         /\ slowQueries' = IF dry_run THEN slowQueries ELSE made.sq
         /\ stats' = [stats EXCEPT
                         !.slow_queries = Len(slow_queries),
                         !.new_slow_queries = IF dry_run THEN 0 ELSE made.new,
                         !.total_queries = total]
    /\ runLog' = [runLog EXCEPT !.end = "returned"]
    /\ cpc' = "idle"
    /\ UNCHANGED <<queryLogs, instances, dry_run, tRows, rowIdx, slow_queries,
                   runs, prevLog, lastOp>>

NextColl ==
    \/ StartRun
    \/ SlowQueryFails
    \/ SlowQueryReturns
    \/ ProcessRow
    \/ FinishRun

(***************************************************************************)
(* Triage of one SlowQuery case: query_detail and update_query_status      *)
(***************************************************************************)

\* SlowQuery.STATUS_CHOICES
StatusChoices == {"new", "in_analysis", "waiting_feedback", "optimized",
                  "ignored", "cannot_optimize"}

\* request.user of the requests (both views are @login_required)
Users == {"u1", "u2"}

\* request.POST.get('status') of update_query_status: a choice, or anything
\* else
PostedStatuses == StatusChoices \cup {"bogus"}

\* timezone.now() while the request after `clock` is handled
Now == clock + 1

InitialTriageLog ==
    [action |-> "none", prevStatus |-> "new", prevStarted |-> 0,
     prevOptimized |-> 0, startedWrites |-> 0, optimizedWrites |-> 0]

\* slow_query.save() at the end of a request: the row takes the four fields,
\* the request is logged
SaveCase(action, st, who, started, startedWritten, optimized, optimizedWritten) ==
    /\ clock < MaxClock
    /\ clock' = Now
    /\ status' = st
    /\ assigned_to' = who
    /\ analysis_started_at' = started
    /\ optimized_at' = optimized
    /\ tLog' = [action |-> action,
                prevStatus |-> status,
                prevStarted |-> analysis_started_at,
                prevOptimized |-> optimized_at,
                startedWrites |-> tLog.startedWrites
                                  + (IF startedWritten THEN 1 ELSE 0),
                optimizedWrites |-> tLog.optimizedWrites
                                    + (IF optimizedWritten THEN 1 ELSE 0)]

\* quick_action = assign_to_me
AssignToMe(u) ==
    /\ UNCHANGED nonTriageVars
    /\ SaveCase("assign_to_me", status, u, analysis_started_at, FALSE,
                optimized_at, FALSE)
    /\ UNCHANGED recorded

\* quick_action = start_analysis
StartAnalysis(u) ==
    /\ UNCHANGED nonTriageVars
    /\ SaveCase("start_analysis", "in_analysis", u, Now, TRUE,
                optimized_at, FALSE)
    /\ UNCHANGED recorded

\* quick_action = mark_optimized
MarkOptimized ==
    /\ UNCHANGED nonTriageVars
    /\ SaveCase("mark_optimized", "optimized", assigned_to,
                analysis_started_at, FALSE, Now, TRUE)
    /\ UNCHANGED recorded

\* quick_action = mark_ignored
MarkIgnored ==
    /\ UNCHANGED nonTriageVars
    /\ SaveCase("mark_ignored", "ignored", assigned_to,
                analysis_started_at, FALSE, optimized_at, FALSE)
    /\ UNCHANGED recorded

\* quick_action = cannot_optimize
CannotOptimize ==
    /\ UNCHANGED nonTriageVars
    /\ SaveCase("cannot_optimize", "cannot_optimize", assigned_to,
                analysis_started_at, FALSE, optimized_at, FALSE)
    /\ UNCHANGED recorded

\* a posted form that is not valid: the page is rendered again, nothing is
\* saved
InvalidForm(action) ==
    SaveCase(action, status, assigned_to, analysis_started_at, FALSE,
             optimized_at, FALSE)

\* POST with 'analyze': QueryAnalysisForm (problem_category, analysis_notes,
\* tags)
AnalyzeForm(u, valid) ==
    /\ UNCHANGED nonTriageVars
    /\ IF valid
       THEN /\ recorded' = recorded \cup {"analysis"}
            /\ IF status = "new"
               THEN SaveCase("analyze", "in_analysis", u, analysis_started_at,
                             FALSE, optimized_at, FALSE)
               ELSE SaveCase("analyze", status, assigned_to,
                             analysis_started_at, FALSE, optimized_at, FALSE)
       ELSE /\ InvalidForm("analyze_invalid")
            /\ UNCHANGED recorded

\* POST with 'optimize': QueryOptimizationForm (optimized_query,
\* optimization_notes, expected_improvement)
OptimizeForm(valid) ==
    /\ UNCHANGED nonTriageVars
    /\ IF valid
       THEN /\ recorded' = recorded \cup {"optimization"}
            /\ SaveCase("optimize", "waiting_feedback", assigned_to,
                        analysis_started_at, FALSE, optimized_at, FALSE)
       ELSE /\ InvalidForm("optimize_invalid")
            /\ UNCHANGED recorded

\* POST with 'save_results': ResultsForm (actual_improvement,
\* before_duration_ms, after_duration_ms)
SaveResultsForm(valid) ==
    /\ UNCHANGED nonTriageVars
    /\ IF valid
       THEN /\ recorded' = recorded \cup {"results"}
            /\ SaveCase("save_results", "optimized", assigned_to,
                        analysis_started_at, FALSE, optimized_at, FALSE)
       ELSE /\ InvalidForm("save_results_invalid")
            /\ UNCHANGED recorded

\* update_query_status, POST with status = new_status
UpdateQueryStatus(u, new_status) ==
    /\ UNCHANGED nonTriageVars
    /\ UNCHANGED recorded
    /\ IF new_status \in StatusChoices
       THEN IF new_status = "in_analysis" /\ analysis_started_at = 0
            THEN SaveCase("update_status", new_status, u, Now, TRUE,
                          optimized_at, FALSE)
            ELSE IF new_status = "optimized" /\ optimized_at = 0
            THEN SaveCase("update_status", new_status, assigned_to,
                          analysis_started_at, FALSE, Now, TRUE)
            ELSE SaveCase("update_status", new_status, assigned_to,
                          analysis_started_at, FALSE, optimized_at, FALSE)
       ELSE InvalidForm("update_status_invalid")

NextTriage ==
    \/ \E u \in Users : AssignToMe(u)
    \/ \E u \in Users : StartAnalysis(u)
    \/ MarkOptimized
    \/ MarkIgnored
    \/ CannotOptimize
    \/ \E u \in Users, valid \in BOOLEAN : AnalyzeForm(u, valid)
    \/ \E valid \in BOOLEAN : OptimizeForm(valid)
    \/ \E valid \in BOOLEAN : SaveResultsForm(valid)
    \/ \E u \in Users, new_status \in PostedStatuses :
           UpdateQueryStatus(u, new_status)

(***************************************************************************)
(* AdvancedQueryAnalyzer: get_explain_plan, analyze_with_explain,          *)
(* generate_comprehensive_report                                           *)
(***************************************************************************)

\* One line of EXPLAIN output, by what the analyzer reads in it: the groups
\* of the first 'Parts: r/t' (<<>> when the line has none) and the
\* 'Sorting' / 'Aggregating' substrings.
Line(parts, sorting, aggregating) ==
    [parts |-> parts, sorting |-> sorting, aggregating |-> aggregating]

\* lines of EXPLAIN indexes = 1: 'Parts: 12/12', 'Parts: 11/11',
\* 'Parts: 10/10', 'Parts: 5/5', 'Parts: 3/12', 'Sorting', 'Aggregating'
IndexesLineSamples ==
    {Line(<<12, 12>>, FALSE, FALSE), Line(<<11, 11>>, FALSE, FALSE),
     Line(<<10, 10>>, FALSE, FALSE), Line(<<5, 5>>, FALSE, FALSE),
     Line(<<3, 12>>, FALSE, FALSE),
     Line(<<>>, TRUE, FALSE), Line(<<>>, FALSE, TRUE)}

IndexesOutputs ==
    UNION {[1 .. n -> IndexesLineSamples] : n \in 0 .. MaxLines}

\* outputs of EXPLAIN PLAN: nothing, 'Sorting', 'Aggregating', or both
PlanOutputs ==
    {<<>>, <<Line(<<>>, TRUE, FALSE)>>, <<Line(<<>>, FALSE, TRUE)>>,
     <<Line(<<>>, FALSE, TRUE), Line(<<>>, TRUE, FALSE)>>}

\* numbers of lines of EXPLAIN PIPELINE, around the thresholds of the score
PipelineCounts == {0, 20, 21, 50, 51, 100, 101}

\* how execute_query ends for one EXPLAIN: a QueryResult with rows ("ok"),
\* a QueryResult with an error and data = [] ("error"), or an exception
\* ("raised")
FailureKinds == {"error", "raised"}

\* what execute_query gives for EXPLAIN indexes = 1 / EXPLAIN PLAN
LineOutcomes(outputs) ==
    [kind : {"ok"}, lines : outputs] \cup [kind : FailureKinds, lines : {<<>>}]

\* what execute_query gives for EXPLAIN PIPELINE (lines counted, not kept)
PipelineOutcomes ==
    [kind : {"ok"}, steps : PipelineCounts] \cup [kind : FailureKinds, steps : {0}]

\* safe_explain: an exception of the request leaves safe_explain, as a bug
\* without the inner try would have it
EscapesUnguarded(res) == res.kind = "raised"

\* safe_explain: does an exception of the request leave safe_explain
\* (except Exception: return [])
Escapes(res) == FALSE

\* safe_explain: [step[0] for step in result.data] if result.data else []
SafeExplain(res) ==
    IF res.kind = "ok" /\ res.lines # <<>> THEN res.lines ELSE <<>>

\* len(safe_explain("PIPELINE"))
SafeExplainLen(res) ==
    IF res.kind = "ok" THEN res.steps ELSE 0

\* re.search(r'Parts:\s*(\d+)/(\d+)', line): the two groups, <<>> if none
PartsMatch(line) == line.parts

\* the test of a 'Parts: r/t' line with the threshold on the total dropped
IsFullScanPartsNoThreshold(read_parts, total_parts) ==
    read_parts >= total_parts

\* if total_parts > 10 and read_parts >= total_parts
IsFullScanParts(read_parts, total_parts) ==
    total_parts > 10 /\ read_parts >= total_parts

\* the loop over indexes_lines from line i on, leaving at the first hit
RECURSIVE HasFullScanFrom(_, _)
HasFullScanFrom(lines, i) ==
    IF i > Len(lines) THEN FALSE
    ELSE IF PartsMatch(lines[i]) # <<>>
            /\ IsFullScanParts(PartsMatch(lines[i])[1], PartsMatch(lines[i])[2])
         THEN TRUE
         ELSE HasFullScanFrom(lines, i + 1)

\* has_full_scan of get_explain_plan
HasFullScan(lines) == HasFullScanFrom(lines, 1)

\* any('Sorting' in line for line in indexes_lines)
HasSorting(lines) == \E i \in 1 .. Len(lines) : lines[i].sorting

\* any('Aggregating' in line for line in indexes_lines)
HasAggregation(lines) == \E i \in 1 .. Len(lines) : lines[i].aggregating

\* the dict get_explain_plan returns when nothing escapes
ExplainData(ilines, steps) ==
    [error |-> FALSE,
     has_full_scan |-> HasFullScan(ilines),
     has_sorting |-> HasSorting(ilines),
     has_aggregation |-> HasAggregation(ilines),
     pipeline_complexity |-> steps]

\* {'error': str(e)}: the flags are absent, .get() reads them as False / 0
ErrorData ==
    [error |-> TRUE, has_full_scan |-> FALSE, has_sorting |-> FALSE,
     has_aggregation |-> FALSE, pipeline_complexity |-> 0]

\* the explain_analysis dict before get_explain_plan has returned
NoExplainData ==
    [error |-> FALSE, has_full_scan |-> FALSE, has_sorting |-> FALSE,
     has_aggregation |-> FALSE, pipeline_complexity |-> 0]

\* min(score, 100)
MinScore(score) == IF score < 100 THEN score ELSE 100

\* the three flag terms with the sign of the sorting term slipped
FlagScoreSignSlip(ed) ==
    (IF ed.has_full_scan THEN 30 ELSE 0)
    - (IF ed.has_sorting THEN 15 ELSE 0)
    + (IF ed.has_aggregation THEN 20 ELSE 0)

\* score += 30 / 15 / 20 for has_full_scan / has_sorting / has_aggregation
FlagScore(ed) ==
    (IF ed.has_full_scan THEN 30 ELSE 0)
    + (IF ed.has_sorting THEN 15 ELSE 0)
    + (IF ed.has_aggregation THEN 20 ELSE 0)

\* analyze_with_explain, step 4: the score of the analysis
AnalyzeScore(ed) ==
    MinScore(FlagScore(ed)
             + (IF ed.pipeline_complexity > 100 THEN 35
                ELSE IF ed.pipeline_complexity > 50 THEN 20
                ELSE 0))

\* _calculate_complexity_score
CalculateComplexityScore(ed) ==
    MinScore(FlagScore(ed)
             + (IF ed.pipeline_complexity > 100 THEN 35
                ELSE IF ed.pipeline_complexity > 50 THEN 20
                ELSE IF ed.pipeline_complexity > 20 THEN 10
                ELSE 0))

\* the outer except of get_explain_plan: {'error': ...} is returned at once
ExplainAborted ==
    /\ explain_data' = ErrorData
    /\ apc' = "score"

\* one safe_explain("indexes = 1") with the executor giving res
IssueIndexes(res) ==
    /\ explainLog' = Append(explainLog, [shape |-> "indexes = 1", res |-> res])
    /\ IF Escapes(res)
       THEN /\ ExplainAborted
            /\ UNCHANGED indexes_lines
       ELSE /\ indexes_lines' = SafeExplain(res)
            /\ apc' = "plan"
            /\ UNCHANGED explain_data

\* one safe_explain("PLAN") with the executor giving res
IssuePlan(res) ==
    /\ explainLog' = Append(explainLog, [shape |-> "PLAN", res |-> res])
    /\ IF Escapes(res)
       THEN /\ ExplainAborted
            /\ UNCHANGED plan_lines
       ELSE /\ plan_lines' = SafeExplain(res)
            /\ apc' = "pipeline"
            /\ UNCHANGED explain_data

\* one safe_explain("PIPELINE") with the executor giving res, and the rest
\* of get_explain_plan
IssuePipeline(res) ==
    /\ explainLog' = Append(explainLog, [shape |-> "PIPELINE", res |-> res])
    /\ IF Escapes(res)
       THEN /\ ExplainAborted
            /\ UNCHANGED pipeline_steps
       ELSE /\ pipeline_steps' = SafeExplainLen(res)
            /\ explain_data' = ExplainData(indexes_lines, SafeExplainLen(res))
            /\ apc' = "score"

\* indexes_lines = safe_explain("indexes = 1")
ExplainIndexes ==
    /\ UNCHANGED nonAnalyzerVars
    /\ apc = "indexes"
    /\ \E res \in LineOutcomes(IndexesOutputs) : IssueIndexes(res)
    /\ UNCHANGED <<plan_lines, pipeline_steps, complexity_score, report_score>>

\* plan_lines = safe_explain("PLAN")
ExplainPlan ==
    /\ UNCHANGED nonAnalyzerVars
    /\ apc = "plan"
    /\ \E res \in LineOutcomes(PlanOutputs) : IssuePlan(res)
    /\ UNCHANGED <<indexes_lines, pipeline_steps, complexity_score,
                   report_score>>

\* pipeline_steps = safe_explain("PIPELINE"), then the flags are derived and
\* the dict is returned
ExplainPipeline ==
    /\ UNCHANGED nonAnalyzerVars
    /\ apc = "pipeline"
    /\ \E res \in PipelineOutcomes : IssuePipeline(res)
    /\ UNCHANGED <<indexes_lines, plan_lines, complexity_score, report_score>>

\* analyze_with_explain: the score is set unless explain_data has 'error'
ScoreAnalysis ==
    /\ UNCHANGED nonAnalyzerVars
    /\ apc = "score"
    /\ complexity_score' = IF explain_data.error THEN complexity_score
                           ELSE AnalyzeScore(explain_data)
    /\ apc' = "report"
    /\ UNCHANGED <<indexes_lines, plan_lines, pipeline_steps, explain_data,
                   report_score, explainLog>>

\* generate_comprehensive_report: _calculate_complexity_score(explain_data)
ScoreReport ==
    /\ UNCHANGED nonAnalyzerVars
    /\ apc = "report"
    /\ report_score' = CalculateComplexityScore(explain_data)
    /\ apc' = "done"
    /\ UNCHANGED <<indexes_lines, plan_lines, pipeline_steps, explain_data,
                   complexity_score, explainLog>>

NextAnalyzer ==
    \/ ExplainIndexes
    \/ ExplainPlan
    \/ ExplainPipeline
    \/ ScoreAnalysis
    \/ ScoreReport

(***************************************************************************)
(* Analysis runs that store their result: AnalysisService.analyze_and_save *)
(* and the advanced_analysis command                                       *)
(***************************************************************************)

\* the QueryLog record the runs analyse
QueryLogId == "log1"

\* the table the analysed query reads
TableName == "events"

\* the fields of QueryAnalysisResult the runs write
ResultFields ==
    {"query_log", "complexity_score", "has_full_scan", "has_sorting",
     "has_aggregation", "pipeline_complexity", "warnings", "analyzed_at"}

\* dict.get(key, default)
Get(dict, key, default) == IF key \in DOMAIN dict THEN dict[key] ELSE default

\* a QueryAnalysisResult with the defaults of its fields; analyzed_at is
\* auto_now_add
NewResult(log, now) ==
    [query_log |-> log, complexity_score |-> 0, has_full_scan |-> FALSE,
     has_sorting |-> FALSE, has_aggregation |-> FALSE,
     pipeline_complexity |-> 0, warnings |-> <<>>, analyzed_at |-> now]

\* update_or_create, update path: setattr(obj, k, v) for k, v in defaults,
\* then save(); a key that is no field becomes a plain attribute
SetFields(row, defaults) ==
    [f \in DOMAIN row |-> IF f \in DOMAIN defaults THEN defaults[f] ELSE row[f]]

\* QueryAnalysisResult.objects.filter(query_log=query_log).first(): the
\* index of the row, 0 for None
FindResult(rows, log) ==
    IF \E i \in 1 .. Len(rows) : rows[i].query_log = log
    THEN CHOOSE i \in 1 .. Len(rows) :
             /\ rows[i].query_log = log
             /\ \A j \in 1 .. Len(rows) : rows[j].query_log = log => i <= j
    ELSE 0

\* QueryAnalysisResult.objects.update_or_create(query_log=log,
\* defaults=defaults); the create path raises FieldError for a key that is
\* no field of the model
UpdateOrCreateResult(rows, log, defaults, now) ==
    LET i == FindResult(rows, log)
    IN  IF i # 0
        THEN [raised |-> FALSE,
              rows |-> [rows EXCEPT ![i] = SetFields(rows[i], defaults)]]
        ELSE IF DOMAIN defaults \subseteq ResultFields
        THEN [raised |-> FALSE,
              rows |-> Append(rows, SetFields(NewResult(log, now), defaults))]
        ELSE [raised |-> TRUE, rows |-> rows]

\* what get_table_stats returns for the table: its statistics (a large
\* table without keys, a medium one with a partition key) or {'error': ...}
TableStatsSamples ==
    {[kind |-> "ok", total_rows |-> 2000000, sorting_key |-> "",
      partition_key |-> "", size_gb |-> 2],
     [kind |-> "ok", total_rows |-> 200000, sorting_key |-> "",
      partition_key |-> "toYYYYMM(d)", size_gb |-> 0],
     [kind |-> "error", total_rows |-> 0, sorting_key |-> "",
      partition_key |-> "", size_gb |-> 0]}

\* analysis['table_analysis']: no table found in the text, or the one table
\* with what get_table_stats gave
TableAnalysisSamples ==
    {<<>>} \cup {[t \in {TableName} |-> st] : st \in TableStatsSamples}

\* EXPLAIN indexes = 1 outputs of the analysed query: none, or a full scan
\* with sorting
StoreIndexesSamples ==
    {<<>>, <<Line(<<12, 12>>, FALSE, FALSE), Line(<<>>, TRUE, FALSE)>>}

\* numbers of lines EXPLAIN PIPELINE returns for the analysed query
StorePipelineSamples == {0, 21}

\* analyze_with_explain, step 3: the warnings drawn from the EXPLAIN flags
ExplainWarnings(ed) ==
    (IF ed.has_full_scan
     THEN <<[type |-> "full_scan", priority |-> "high"]>> ELSE <<>>)
    \o (IF ed.has_sorting
        THEN <<[type |-> "sorting", priority |-> "medium"]>> ELSE <<>>)
    \o (IF ed.pipeline_complexity > 100
        THEN <<[type |-> "complex_pipeline", priority |-> "medium"]>>
        ELSE <<>>)

\* the dict analyze_with_explain returns
Analysis(ilines, steps, ta) ==
    [explain_analysis |-> ExplainData(ilines, steps),
     table_analysis |-> ta,
     warnings |-> ExplainWarnings(ExplainData(ilines, steps)),
     complexity_score |-> AnalyzeScore(ExplainData(ilines, steps))]

\* (timezone.now() - existing_analysis.analyzed_at).days < 1
IsFresh(now, analyzed_at) == now - analyzed_at < 1

\* analyze_and_save passes query_log.query_text, a str, to
\* _calculate_complexity_score, which calls .get on it: AttributeError
ScoreArgumentIsDict == FALSE

\* AnalysisService.analyze_and_save: defaults of the result
ServiceDefaults(analysis) ==
    [complexity_score |-> CalculateComplexityScore(analysis.explain_analysis),
     has_full_scan |-> analysis.explain_analysis.has_full_scan,
     has_sorting |-> analysis.explain_analysis.has_sorting,
     has_aggregation |-> analysis.explain_analysis.has_aggregation,
     pipeline_complexity |-> analysis.explain_analysis.pipeline_complexity,
     warnings |-> analysis.warnings]

\* AnalysisService.analyze_and_save, except branch: defaults of the result
ServiceErrorDefaults ==
    [warnings |-> <<[type |-> "analysis_error", priority |-> "high"]>>]

\* a TableAnalysis row with the defaults of its fields
NewTable(name, database) ==
    [table_name |-> name, database |-> database, query_count |-> 0]

\* TableAnalysis.objects.filter(table_name=table_name).count()
CountByName(tables, name) ==
    Cardinality({i \in 1 .. Len(tables) : tables[i].table_name = name})

\* the index of the TableAnalysis row of (name, database), 0 if none
FindTable(tables, name, database) ==
    IF \E i \in 1 .. Len(tables) :
           tables[i].table_name = name /\ tables[i].database = database
    THEN CHOOSE i \in 1 .. Len(tables) :
             tables[i].table_name = name /\ tables[i].database = database
    ELSE 0

\* TableAnalysis.objects.update_or_create(table_name=..., database=...,
\* defaults=...)
UpdateOrCreateTable(tables, name, database, defaults) ==
    LET i == FindTable(tables, name, database)
    IN  IF i # 0
        THEN [tables EXCEPT ![i] = SetFields(tables[i], defaults)]
        ELSE Append(tables, SetFields(NewTable(name, database), defaults))

\* if stats and 'error' not in stats
StatsUsable(st) == st.kind = "ok"

\* AnalysisService._save_table_analysis
ServiceSaveTableAnalysis(tables, ta) ==
    IF TableName \in DOMAIN ta /\ StatsUsable(ta[TableName])
    THEN UpdateOrCreateTable(tables, TableName, "default",
                             [total_rows |-> ta[TableName].total_rows])
    ELSE tables

\* create_index_recommendations: the recommendations drawn from the
\* statistics of the table
Recommendations(st) ==
    (IF st.sorting_key = "" /\ st.total_rows > 100000
     THEN <<[column_name |-> "id", index_type |-> "skip"]>> ELSE <<>>)
    \o (IF st.partition_key = "" /\ st.total_rows > 1000000
        THEN <<[column_name |-> "toYYYYMM(created_at)",
                index_type |-> "partition"]>>
        ELSE <<>>)

\* is there an IndexRecommendation of (table_analysis, column_name,
\* index_type)
RecExists(recs, tpk, rec) ==
    \E i \in 1 .. Len(recs) :
        /\ recs[i].table_analysis = tpk
        /\ recs[i].column_name = rec.column_name
        /\ recs[i].index_type = rec.index_type

\* IndexRecommendation.objects.get_or_create(table_analysis=...,
\* column_name=..., index_type=..., defaults={..., 'query_count': 1})
GetOrCreateRec(recs, tpk, rec) ==
    IF RecExists(recs, tpk, rec) THEN recs
    ELSE Append(recs, [table_analysis |-> tpk,
                       column_name |-> rec.column_name,
                       index_type |-> rec.index_type,
                       query_count |-> 1])

\* create_index_recommendations: for rec_data in recommendations
RECURSIVE CreateIndexRecommendations(_, _, _)
CreateIndexRecommendations(recs, tpk, list) ==
    IF list = <<>> THEN recs
    ELSE CreateIndexRecommendations(GetOrCreateRec(recs, tpk, Head(list)),
                                    tpk, Tail(list))

\* save_table_analysis of the command: the TableAnalysis rows afterwards
CommandSaveTables(tables, ta) ==
    IF TableName \in DOMAIN ta /\ StatsUsable(ta[TableName])
    THEN UpdateOrCreateTable(
             tables, TableName, "default",
             [query_count |-> CountByName(tables, TableName) + 1])
    ELSE tables

\* save_table_analysis of the command: the IndexRecommendation rows
\* afterwards
CommandSaveRecs(tables, recs, ta) ==
    IF TableName \in DOMAIN ta /\ StatsUsable(ta[TableName])
    THEN CreateIndexRecommendations(
             recs,
             FindTable(CommandSaveTables(tables, ta), TableName, "default"),
             Recommendations(ta[TableName]))
    ELSE recs

\* save_analysis_results: defaults of the result; 'explain_pipeline' is no
\* key of the analysis dict, the two query-type keys are no fields
CommandDefaults(analysis, now) ==
    [query_log |-> QueryLogId,
     complexity_score |-> Get(analysis, "complexity_score", 0),
     has_full_scan |-> analysis.explain_analysis.has_full_scan,
     has_sorting |-> analysis.explain_analysis.has_sorting,
     has_aggregation |-> analysis.explain_analysis.has_aggregation,
     pipeline_complexity |-> Len(Get(analysis, "explain_pipeline", <<>>)),
     warnings |-> Get(analysis, "warnings", <<>>),
     original_query_type |-> "SELECT",
     analyzed_query_type |-> "SELECT",
     analyzed_at |-> now]

\* save_error_analysis: defaults of the result
CommandErrorDefaults(now) ==
    [query_log |-> QueryLogId, complexity_score |-> 0,
     has_full_scan |-> FALSE, has_sorting |-> FALSE,
     has_aggregation |-> FALSE, pipeline_complexity |-> 0,
     warnings |-> <<[type |-> "error", priority |-> "critical"]>>,
     analyzed_at |-> now]

\* save_basic_analysis: defaults of the result of a query that is no SELECT
CommandBasicDefaults(now) ==
    [query_log |-> QueryLogId, complexity_score |-> 0,
     has_full_scan |-> FALSE, has_sorting |-> FALSE,
     has_aggregation |-> FALSE, pipeline_complexity |-> 0,
     warnings |-> <<[type |-> "unsupported", priority |-> "info"]>>,
     analyzed_at |-> now]

\* the three tables and the outcome of one run
RunResult(outcome, results, tables, recs) ==
    [outcome |-> outcome, results |-> results, tables |-> tables,
     recs |-> recs]

\* AnalysisService.analyze_and_save(query_log, force_refresh); raises: an
\* exception leaves analyze_with_explain.  With the score argument a dict
\* the result would be saved, then the table profiles, and
\* _generate_index_recommendations would fail on a full scan (the module
\* uses re without importing it).
ServiceRun(results, tables, recs, now, force_refresh, analysis, raises) ==
    LET i == FindResult(results, QueryLogId)
        errorSaved(rows) ==
            UpdateOrCreateResult(rows, QueryLogId, ServiceErrorDefaults,
                                 now).rows
        saved == UpdateOrCreateResult(results, QueryLogId,
                                      ServiceDefaults(analysis), now).rows
    IN  IF ~force_refresh /\ i # 0 /\ IsFresh(now, results[i].analyzed_at)
        THEN RunResult("skipped", results, tables, recs)
        ELSE IF raises \/ ~ScoreArgumentIsDict
        THEN RunResult("error", errorSaved(results), tables, recs)
        ELSE IF analysis.explain_analysis.has_full_scan
        THEN RunResult("error", errorSaved(saved),
                       ServiceSaveTableAnalysis(tables,
                                                analysis.table_analysis),
                       recs)
        ELSE RunResult("saved", saved,
                       ServiceSaveTableAnalysis(tables,
                                                analysis.table_analysis),
                       recs)

\* analyze_and_save_single_query(analyzer, query_log, force_reanalyze,
\* save_tables, analyze_non_select); basic: the query is no SELECT and
\* analyze_non_select is off
CommandRun(results, tables, recs, now, force_reanalyze, basic, save_tables, analysis, raises) ==
    LET i == FindResult(results, QueryLogId)
        errorSaved ==
            UpdateOrCreateResult(results, QueryLogId,
                                 CommandErrorDefaults(now), now).rows
        saved == UpdateOrCreateResult(results, QueryLogId,
                                      CommandDefaults(analysis, now), now)
        withTables == save_tables /\ analysis.table_analysis # <<>>
    IN  IF ~force_reanalyze /\ i # 0
        THEN RunResult("skipped", results, tables, recs)
        ELSE IF basic
        THEN RunResult("basic",
                       UpdateOrCreateResult(results, QueryLogId,
                                            CommandBasicDefaults(now),
                                            now).rows,
                       tables, recs)
        ELSE IF raises \/ saved.raised
        THEN RunResult("error", errorSaved, tables, recs)
        ELSE RunResult("saved", saved.rows,
                       IF withTables
                       THEN CommandSaveTables(tables, analysis.table_analysis)
                       ELSE tables,
                       IF withTables
                       THEN CommandSaveRecs(tables, recs,
                                            analysis.table_analysis)
                       ELSE recs)

\* the (table, column, kind) keys a run detects when it saves the table
DetectedKeys(ta) ==
    IF TableName \in DOMAIN ta /\ StatsUsable(ta[TableName])
    THEN {<<TableName, Recommendations(ta[TableName])[k].column_name,
            Recommendations(ta[TableName])[k].index_type>> :
              k \in 1 .. Len(Recommendations(ta[TableName]))}
    ELSE {}

\* the (table, column, kind) keys of the recommendations
RecKeys ==
    {<<TableName, "id", "skip">>,
     <<TableName, "toYYYYMM(created_at)", "partition">>}

InitialPassLog ==
    [entry |-> "none", force |-> FALSE, outcome |-> "none", day |-> 0,
     raised |-> FALSE, engineSteps |-> 0, derivedSteps |-> 0,
     existed |-> FALSE, storedOnBefore |-> 0, resultsBefore |-> <<>>]

\* one run ends: the tables take what it wrote, the run is logged;
\* savedTables: the run has gone through its table-profile step
EndRun(entry, force, run, raised, analysis, steps, savedTables) ==
    /\ passes < MaxPasses
    /\ passes' = passes + 1
    /\ analysisResults' = run.results
    /\ tableAnalyses' = run.tables
    /\ indexRecs' = run.recs
    /\ storedOn' = IF run.outcome = "skipped" THEN storedOn
                   ELSE [k \in 1 .. Len(run.results) |-> today]
    /\ tableSaves' = IF /\ savedTables
                        /\ TableName \in DOMAIN analysis.table_analysis
                        /\ StatsUsable(analysis.table_analysis[TableName])
                     THEN tableSaves + 1 ELSE tableSaves
    /\ detections' = [k \in RecKeys |->
                         IF savedTables /\ k \in DetectedKeys(analysis.table_analysis)
                         THEN detections[k] + 1 ELSE detections[k]]
    /\ passLog' = [entry |-> entry, force |-> force, outcome |-> run.outcome,
                   day |-> today, raised |-> raised,
                   engineSteps |-> steps,
                   derivedSteps |-> analysis.explain_analysis.pipeline_complexity,
                   existed |-> FindResult(analysisResults, QueryLogId) # 0,
                   storedOnBefore |->
                       IF FindResult(analysisResults, QueryLogId) # 0
                       THEN storedOn[FindResult(analysisResults, QueryLogId)]
                       ELSE 0,
                   resultsBefore |-> analysisResults]
    /\ UNCHANGED today

\* AnalysisService.analyze_and_save
ServiceAnalyzeAndSave ==
    /\ UNCHANGED nonStoreVars
    /\ \E force_refresh \in BOOLEAN, raises \in BOOLEAN,
          ilines \in StoreIndexesSamples, steps \in StorePipelineSamples,
          ta \in TableAnalysisSamples :
           LET analysis == Analysis(ilines, steps, ta)
               run == ServiceRun(analysisResults, tableAnalyses, indexRecs,
                                 today, force_refresh, analysis, raises)
           IN  EndRun("service", force_refresh, run,
                      run.outcome = "error", analysis, steps,
                      run.outcome = "saved" \/ run.tables # tableAnalyses)

\* Command.analyze_and_save_single_query
CommandAnalyzeAndSave ==
    /\ UNCHANGED nonStoreVars
    /\ \E force_reanalyze \in BOOLEAN, basic \in BOOLEAN,
          save_tables \in BOOLEAN, raises \in BOOLEAN,
          ilines \in StoreIndexesSamples, steps \in StorePipelineSamples,
          ta \in TableAnalysisSamples :
           LET analysis == Analysis(ilines, steps, ta)
               run == CommandRun(analysisResults, tableAnalyses, indexRecs,
                                 today, force_reanalyze, basic, save_tables,
                                 analysis, raises)
           IN  EndRun("command", force_reanalyze, run,
                      run.outcome = "error", analysis, steps,
                      run.outcome = "saved" /\ save_tables)

\* a day passes between two runs
DayPasses ==
    /\ UNCHANGED nonStoreVars
    /\ today < MaxDay
    /\ today' = today + 1
    /\ UNCHANGED <<analysisResults, tableAnalyses, indexRecs, passes, passLog,
                   storedOn, tableSaves, detections>>

NextStore ==
    \/ ServiceAnalyzeAndSave
    \/ CommandAnalyzeAndSave
    \/ DayPasses

(***************************************************************************)
(* Two overlapping runs of save_table_analysis on the same table: every    *)
(* database statement of a run is one step                                 *)
(***************************************************************************)

\* the two processes that run the advanced_analysis command
OverlapRuns == {"run1", "run2"}

\* the statistics a run holds for the table: those that pass
\* `if table_stats and 'error' not in table_stats`
OverlapStats == {st \in TableStatsSamples : StatsUsable(st)}

\* a run before it reaches save_table_analysis
IdleRun ==
    [pc |-> "idle", table_stats |-> CHOOSE st \in OverlapStats : TRUE,
     counted |-> 0, table_analysis |-> 0, k |-> 1]

\* the rows of ovRecs that match the lookup of get_or_create
MatchingRecs(recs, tpk, rec) ==
    {i \in 1 .. Len(recs) :
         /\ recs[i].table_analysis = tpk
         /\ recs[i].column_name = rec.column_name
         /\ recs[i].index_type = rec.index_type}

\* unique_together = ['table_name', 'database']: may a row of this key be
\* inserted
TableInsertAllowed(tables, name, database) ==
    FindTable(tables, name, database) = 0

\* IndexRecommendation.Meta declares no unique constraint: every insert is
\* accepted
RecInsertAllowed(recs, tpk, rec) == TRUE

\* analyze_and_save_single_query reaches save_table_analysis with the
\* statistics of the table
OvEnter(p) ==
    /\ ovRun[p].pc = "idle"
    /\ \E st \in OverlapStats :
           ovRun' = [ovRun EXCEPT ![p] = [IdleRun EXCEPT !.pc = "count",
                                                         !.table_stats = st]]
    /\ UNCHANGED <<ovTables, ovRecs>>

\* TableAnalysis.objects.filter(table_name=table_name).count(), evaluated
\* for the defaults before update_or_create is called
OvCount(p) ==
    /\ ovRun[p].pc = "count"
    /\ ovRun' = [ovRun EXCEPT ![p].pc = "table_get",
                              ![p].counted = CountByName(ovTables, TableName)]
    /\ UNCHANGED <<ovTables, ovRecs>>

\* update_or_create: the lookup; a row found is updated with the defaults
OvTableGet(p) ==
    LET i == FindTable(ovTables, TableName, "default")
    IN  /\ ovRun[p].pc = "table_get"
        /\ IF i # 0
           THEN /\ ovTables' =
                       [ovTables EXCEPT ![i] =
                            SetFields(ovTables[i],
                                      [query_count |-> ovRun[p].counted + 1])]
                /\ ovRun' = [ovRun EXCEPT ![p].pc = "rec_get",
                                          ![p].table_analysis = i]
           ELSE /\ ovRun' = [ovRun EXCEPT ![p].pc = "table_create"]
                /\ UNCHANGED ovTables
        /\ UNCHANGED ovRecs

\* update_or_create: the insert after a lookup that found nothing; on
\* IntegrityError the row is fetched again and updated
OvTableCreate(p) ==
    LET i == FindTable(ovTables, TableName, "default")
        defaults == [query_count |-> ovRun[p].counted + 1]
    IN  /\ ovRun[p].pc = "table_create"
        /\ IF TableInsertAllowed(ovTables, TableName, "default")
           THEN /\ ovTables' =
                       Append(ovTables,
                              SetFields(NewTable(TableName, "default"),
                                        defaults))
                /\ ovRun' = [ovRun EXCEPT ![p].pc = "rec_get",
                                          ![p].table_analysis =
                                              Len(ovTables) + 1]
           ELSE /\ ovTables' =
                       [ovTables EXCEPT ![i] = SetFields(ovTables[i], defaults)]
                /\ ovRun' = [ovRun EXCEPT ![p].pc = "rec_get",
                                          ![p].table_analysis = i]
        /\ UNCHANGED ovRecs

\* get_or_create of the k-th recommendation: the lookup; one row found is
\* returned as it is, several raise MultipleObjectsReturned, which the loop
\* body catches
OvRecGet(p) ==
    LET list == Recommendations(ovRun[p].table_stats)
    IN  /\ ovRun[p].pc = "rec_get"
        /\ ovRun[p].k <= Len(list)
        /\ IF MatchingRecs(ovRecs, ovRun[p].table_analysis,
                           list[ovRun[p].k]) = {}
           THEN ovRun' = [ovRun EXCEPT ![p].pc = "rec_create"]
           ELSE ovRun' = [ovRun EXCEPT ![p].k = @ + 1]
        /\ UNCHANGED <<ovTables, ovRecs>>

\* get_or_create of the k-th recommendation: the insert after a lookup that
\* found nothing
OvRecCreate(p) ==
    LET rec == Recommendations(ovRun[p].table_stats)[ovRun[p].k]
    IN  /\ ovRun[p].pc = "rec_create"
        /\ IF RecInsertAllowed(ovRecs, ovRun[p].table_analysis, rec)
           THEN ovRecs' = Append(ovRecs,
                                 [table_analysis |-> ovRun[p].table_analysis,
                                  column_name |-> rec.column_name,
                                  index_type |-> rec.index_type,
                                  query_count |-> 1])
           ELSE UNCHANGED ovRecs
        /\ ovRun' = [ovRun EXCEPT ![p].pc = "rec_get", ![p].k = @ + 1]
        /\ UNCHANGED ovTables

\* the loop over the recommendations ends, save_table_analysis returns
OvReturn(p) ==
    /\ ovRun[p].pc = "rec_get"
    /\ ovRun[p].k > Len(Recommendations(ovRun[p].table_stats))
    /\ ovRun' = [ovRun EXCEPT ![p].pc = "done"]
    /\ UNCHANGED <<ovTables, ovRecs>>

OverlapEnter == UNCHANGED nonOverlapVars /\ \E p \in OverlapRuns : OvEnter(p)

OverlapCount == UNCHANGED nonOverlapVars /\ \E p \in OverlapRuns : OvCount(p)

OverlapTableGet == UNCHANGED nonOverlapVars /\ \E p \in OverlapRuns : OvTableGet(p)

OverlapTableCreate ==
    UNCHANGED nonOverlapVars /\ \E p \in OverlapRuns : OvTableCreate(p)

OverlapRecGet == UNCHANGED nonOverlapVars /\ \E p \in OverlapRuns : OvRecGet(p)

OverlapRecCreate ==
    UNCHANGED nonOverlapVars /\ \E p \in OverlapRuns : OvRecCreate(p)

OverlapReturn == UNCHANGED nonOverlapVars /\ \E p \in OverlapRuns : OvReturn(p)

NextOverlap ==
    \/ OverlapEnter
    \/ OverlapCount
    \/ OverlapTableGet
    \/ OverlapTableCreate
    \/ OverlapRecGet
    \/ OverlapRecCreate
    \/ OverlapReturn

(***************************************************************************)
(* Checks of the SQL text: QueryOptimizationGuide.analyze_query and the    *)
(* static checks of analyze_with_explain.  A text is the sequence of its   *)
(* characters                                                              *)
(***************************************************************************)

\* OPTIMIZATION_PATTERNS in the order of the dict.  A regular expression is
\* the sequence of its elements: a character, or .* ("ANY*"), \s* ("WS*"),
\* \s+ ("WS+"), \w+ ("W+").  The recommendations are named rule/number.
OPTIMIZATION_PATTERNS ==
    <<
      [pattern |-> "full_scan",
       patterns |->
           <<<<"W", "H", "E", "R", "E", "ANY*", "!", "=">>,
             <<"W", "H", "E", "R", "E", "ANY*", "N", "O", "T", " ", "I", "N">>,
             <<"W", "H", "E", "R", "E", "ANY*", "L", "I", "K", "E", "ANY*",
               "%">>,
             <<"W", "H", "E", "R", "E", "ANY*", "I", "S", " ", "N", "U",
               "L", "L">>,
             <<"W", "H", "E", "R", "E", "ANY*", "O", "R", "ANY*", "=">>>>,
       recommendations |->
           <<"full_scan/1", "full_scan/2", "full_scan/3", "full_scan/4",
             "full_scan/5">>,
       priority |-> "high"],
      [pattern |-> "missing_index",
       patterns |->
           <<<<"W", "H", "E", "R", "E", "ANY*", "W+", "ANY*", "=">>,
             <<"W", "H", "E", "R", "E", "ANY*", "W+", "ANY*", ">">>,
             <<"W", "H", "E", "R", "E", "ANY*", "W+", "ANY*", "<">>,
             <<"J", "O", "I", "N", "ANY*", "O", "N", "ANY*", "=">>>>,
       recommendations |->
           <<"missing_index/1", "missing_index/2", "missing_index/3",
             "missing_index/4">>,
       priority |-> "high"],
      [pattern |-> "cross_join",
       patterns |->
           <<<<"C", "R", "O", "S", "S", " ", "J", "O", "I", "N">>,
             <<"J", "O", "I", "N", "ANY*", "O", "N", "ANY*", "1", "=", "1">>,
             <<",", "ANY*", ",">>>>,
       recommendations |->
           <<"cross_join/1", "cross_join/2", "cross_join/3", "cross_join/4">>,
       priority |-> "critical"],
      [pattern |-> "subquery",
       patterns |->
           <<<<"W", "H", "E", "R", "E", "ANY*", "I", "N", "WS*", "(", "S",
               "E", "L", "E", "C", "T">>,
             <<"W", "H", "E", "R", "E", "ANY*", "E", "X", "I", "S", "T",
               "S", "WS*", "(", "S", "E", "L", "E", "C", "T">>,
             <<"S", "E", "L", "E", "C", "T", "ANY*", "(", "WS*", "S", "E",
               "L", "E", "C", "T">>>>,
       recommendations |->
           <<"subquery/1", "subquery/2", "subquery/3", "subquery/4">>,
       priority |-> "medium"],
      [pattern |-> "large_result",
       patterns |->
           <<<<"S", "E", "L", "E", "C", "T", "WS*", "*">>,
             <<"L", "I", "M", "I", "T", "WS+", "1", "0", "0", "0", "0", "0">>,
             <<"L", "I", "M", "I", "T", "WS+", "1", "0", "0", "0", "0">>>>,
       recommendations |->
           <<"large_result/1", "large_result/2", "large_result/3",
             "large_result/4">>,
       priority |-> "medium"],
      [pattern |-> "memory_usage",
       patterns |->
           <<<<"D", "I", "S", "T", "I", "N", "C", "T">>,
             <<"G", "R", "O", "U", "P", " ", "B", "Y", "ANY*", "W+", ",",
               "WS*", "W+", ",", "WS*", "W+">>,
             <<"O", "R", "D", "E", "R", " ", "B", "Y", "ANY*", "W+", ",",
               "WS*", "W+", ",", "WS*", "W+">>>>,
       recommendations |->
           <<"memory_usage/1", "memory_usage/2", "memory_usage/3",
             "memory_usage/4">>,
       priority |-> "medium"],
      [pattern |-> "datetime_optimization",
       patterns |->
           <<<<"W", "H", "E", "R", "E", "ANY*", "d", "a", "t", "e", "ANY*",
               ">", "ANY*", "n", "o", "w", "(", ")">>,
             <<"W", "H", "E", "R", "E", "ANY*", "t", "o", "D", "a", "t",
               "e", "(">>,
             <<"W", "H", "E", "R", "E", "ANY*", "t", "o", "S", "t", "r",
               "i", "n", "g", "(", "d", "a", "t", "e", ")">>>>,
       recommendations |->
           <<"datetime_optimization/1", "datetime_optimization/2",
             "datetime_optimization/3", "datetime_optimization/4">>,
       priority |-> "medium"]
    >>

\* the SQL texts analysed, as sequences of characters, with what they are:
\* wildcard: the text selects all columns; limit, order_by: it has the clause
QueryTexts ==
    <<
      \* SELECT * FROM t LIMIT 10
      [text |->
           <<"S", "E", "L", "E", "C", "T", " ", "*", " ", "F", "R", "O",
             "M", " ", "t", " ", "L", "I", "M", "I", "T", " ", "1", "0">>,
       wildcard |-> TRUE, limit |-> TRUE, order_by |-> FALSE],
      \* select * from t
      [text |->
           <<"s", "e", "l", "e", "c", "t", " ", "*", " ", "f", "r", "o",
             "m", " ", "t">>,
       wildcard |-> TRUE, limit |-> FALSE, order_by |-> FALSE],
      \* SELECT\n*\nFROM t
      [text |->
           <<"S", "E", "L", "E", "C", "T", "\n", "*", "\n", "F", "R", "O",
             "M", " ", "t">>,
       wildcard |-> TRUE, limit |-> FALSE, order_by |-> FALSE],
      \* SELECT a FROM t ORDER BY a LIMIT 10
      [text |->
           <<"S", "E", "L", "E", "C", "T", " ", "a", " ", "F", "R", "O",
             "M", " ", "t", " ", "O", "R", "D", "E", "R", " ", "B", "Y",
             " ", "a", " ", "L", "I", "M", "I", "T", " ", "1", "0">>,
       wildcard |-> FALSE, limit |-> TRUE, order_by |-> TRUE],
      \* SELECT a FROM t WHERE a != 1
      [text |->
           <<"S", "E", "L", "E", "C", "T", " ", "a", " ", "F", "R", "O",
             "M", " ", "t", " ", "W", "H", "E", "R", "E", " ", "a", " ",
             "!", "=", " ", "1">>,
       wildcard |-> FALSE, limit |-> FALSE, order_by |-> FALSE],
      \* SELECT a, b, c FROM t LIMIT 10000
      [text |->
           <<"S", "E", "L", "E", "C", "T", " ", "a", ",", " ", "b", ",",
             " ", "c", " ", "F", "R", "O", "M", " ", "t", " ", "L", "I",
             "M", "I", "T", " ", "1", "0", "0", "0", "0">>,
       wildcard |-> FALSE, limit |-> TRUE, order_by |-> FALSE]
    >>

\* the letters str.upper() maps, and what it maps them to
LowerLetters ==
    <<"a", "b", "c", "d", "e", "f", "g", "h", "i", "j", "k", "l", "m", "n",
      "o", "p", "q", "r", "s", "t", "u", "v", "w", "x", "y", "z">>

UpperLetters ==
    <<"A", "B", "C", "D", "E", "F", "G", "H", "I", "J", "K", "L", "M", "N",
      "O", "P", "Q", "R", "S", "T", "U", "V", "W", "X", "Y", "Z">>

\* str.upper() on one character
UpperChar(c) ==
    IF \E i \in DOMAIN LowerLetters : LowerLetters[i] = c
    THEN UpperLetters[CHOOSE i \in DOMAIN LowerLetters : LowerLetters[i] = c]
    ELSE c

\* the characters \w matches
WordChars ==
    {LowerLetters[i] : i \in DOMAIN LowerLetters}
    \cup {UpperLetters[i] : i \in DOMAIN UpperLetters}
    \cup {"0", "1", "2", "3", "4", "5", "6", "7", "8", "9", "_"}

\* the characters \s matches
SpaceChars == {" ", "\n", "\t"}

\* query.upper()
Upper(text) == [i \in 1 .. Len(text) |-> UpperChar(text[i])]

\* needle in text, for two strings
Contains(text, needle) ==
    \E s \in 0 .. Len(text) - Len(needle) :
        \A k \in 1 .. Len(needle) : text[s + k] = needle[k]

\* does the regular expression, from its element pi on, match the text from
\* position ti on; with re.IGNORECASE a character matches in either case,
\* and . matches every character but the newline
RECURSIVE MatchAt(_, _, _, _)
MatchAt(regex, pi, text, ti) ==
    IF pi > Len(regex) THEN TRUE
    ELSE LET e == regex[pi]
             Run(chars, least) ==
                 \E j \in ti + least .. Len(text) + 1 :
                     /\ \A k \in ti .. j - 1 : text[k] \in chars
                     /\ MatchAt(regex, pi + 1, text, j)
         IN  CASE e = "ANY*" ->
                      \E j \in ti .. Len(text) + 1 :
                          /\ \A k \in ti .. j - 1 : text[k] # "\n"
                          /\ MatchAt(regex, pi + 1, text, j)
               [] e = "WS*" -> Run(SpaceChars, 0)
               [] e = "WS+" -> Run(SpaceChars, 1)
               [] e = "W+" -> Run(WordChars, 1)
               [] OTHER ->
                      /\ ti <= Len(text)
                      /\ UpperChar(text[ti]) = UpperChar(e)
                      /\ MatchAt(regex, pi + 1, text, ti + 1)

\* re.search(regex_pattern, query_upper, re.IGNORECASE)
Search(regex, text) ==
    \E s \in 1 .. Len(text) + 1 : MatchAt(regex, 1, text, s)

\* the entry analyze_query appends to detected_patterns
Detected(pattern_info) ==
    [pattern |-> pattern_info.pattern, priority |-> pattern_info.priority,
     recommendations |-> pattern_info.recommendations]

\* for regex_pattern in pattern_info['patterns']: from the i-th pattern on;
\* the first pattern found appends the entry and breaks
RECURSIVE DetectFrom(_, _, _)
DetectFrom(pattern_info, i, query_upper) ==
    IF i > Len(pattern_info.patterns) THEN <<>>
    ELSE IF Search(pattern_info.patterns[i], query_upper)
    THEN <<Detected(pattern_info)>>
    ELSE DetectFrom(pattern_info, i + 1, query_upper)

\* for pattern_key, pattern_info in OPTIMIZATION_PATTERNS.items(): from the
\* r-th rule on
RECURSIVE DetectedPatterns(_, _)
DetectedPatterns(r, query_upper) ==
    IF r > Len(OPTIMIZATION_PATTERNS) THEN <<>>
    ELSE DetectFrom(OPTIMIZATION_PATTERNS[r], 1, query_upper)
         \o DetectedPatterns(r + 1, query_upper)

\* the recommendations of the detected patterns, in the order the two
\* nested loops visit them
RECURSIVE AllRecommendations(_)
AllRecommendations(detected) ==
    IF detected = <<>> THEN <<>>
    ELSE Head(detected).recommendations \o AllRecommendations(Tail(detected))

\* if rec not in seen_recommendations: append it and add it to the set
RECURSIVE UniqueRecommendations(_, _)
UniqueRecommendations(recs, seen) ==
    IF recs = <<>> THEN <<>>
    ELSE IF Head(recs) \in seen
    THEN UniqueRecommendations(Tail(recs), seen)
    ELSE <<Head(recs)>>
         \o UniqueRecommendations(Tail(recs), seen \cup {Head(recs)})

\* the local set with the set of the call before kept
SeenKeptFromLastCall(previous) == previous

\* seen_recommendations = set()
SeenAtStart(previous) == {}

\* len([p for p in detected_patterns if p['priority'] == priority])
CountPriority(detected, priority) ==
    Cardinality({i \in DOMAIN detected : detected[i].priority = priority})

\* query_upper = query.upper(), for each of the texts
QueryUpper == [q \in DOMAIN QueryTexts |-> Upper(QueryTexts[q].text)]

\* detected_patterns after the two nested loops, for each of the texts
DetectedOf == [q \in DOMAIN QueryTexts |-> DetectedPatterns(1, QueryUpper[q])]

\* QueryOptimizationGuide.analyze_query(query), query the q-th text: the
\* dict it returns
AnalyzeQuery(q, seen) ==
    LET detected == DetectedOf[q]
    IN  [detected_patterns |-> detected,
         recommendations |->
             UniqueRecommendations(AllRecommendations(detected), seen),
         summary |->
             [critical_count |-> CountPriority(detected, "critical"),
              high_count |-> CountPriority(detected, "high"),
              medium_count |-> CountPriority(detected, "medium"),
              total_patterns |-> Len(detected)]]

\* analyze_with_explain, step 5: the warning for a table of more than 1 GB
TableWarnings(st) ==
    IF StatsUsable(st) /\ st.size_gb > 1
    THEN <<[type |-> "large_table", priority |-> "info"]>> ELSE <<>>

\* analyze_with_explain, step 6: the checks of the text
StaticWarnings(query_upper) ==
    (IF Contains(query_upper, <<"S", "E", "L", "E", "C", "T", " ", "*">>)
     THEN <<[type |-> "select_all", priority |-> "medium"]>> ELSE <<>>)
    \o (IF /\ Contains(query_upper, <<"L", "I", "M", "I", "T">>)
           /\ ~Contains(query_upper,
                        <<"O", "R", "D", "E", "R", " ", "B", "Y">>)
        THEN <<[type |-> "limit_no_order", priority |-> "low"]>>
        ELSE <<>>)

\* the warnings of step 6, for each of the texts
StaticOf == [q \in DOMAIN QueryTexts |-> StaticWarnings(QueryUpper[q])]

\* the warnings of the dict analyze_with_explain returns for the q-th text
AnalysisWarnings(q, ed, st) ==
    (IF ed.error THEN <<>> ELSE ExplainWarnings(ed))
    \o TableWarnings(st)
    \o StaticOf[q]

\* EXPLAIN indexes = 1 outputs of the text: none, a full scan with sorting,
\* an aggregation
StaticIndexesSamples ==
    StoreIndexesSamples \cup {<<Line(<<>>, FALSE, TRUE)>>}

\* numbers of lines EXPLAIN PIPELINE returns: none, more than 50, more than
\* 100
StaticPipelineSamples == {0, 51, 101}

InitialStaticLog ==
    [query |-> 0, explain |-> NoExplainData, warnings |-> <<>>]

\* optimization_guide.analyze_query(query.query_text)
GuideAnalyzeQuery ==
    /\ UNCHANGED nonGuideVars
    /\ Len(guideLog) < MaxGuideCalls
    /\ \E q \in DOMAIN QueryTexts :
           LET seen == SeenAtStart(seen_recommendations)
               res == AnalyzeQuery(q, seen)
               recs == AllRecommendations(res.detected_patterns)
           IN  /\ guideLog' = Append(guideLog, [query |-> q, result |-> res])
               /\ seen_recommendations' =
                      seen \cup {recs[k] : k \in DOMAIN recs}
    /\ UNCHANGED staticLog

\* analyzer.analyze_with_explain(query): failed, get_explain_plan returns
\* {'error': ...}; otherwise the EXPLAIN requests gave ilines and steps
AnalyzeWithExplain ==
    /\ UNCHANGED nonGuideVars
    /\ \E q \in DOMAIN QueryTexts, failed \in BOOLEAN,
          ilines \in StaticIndexesSamples, steps \in StaticPipelineSamples,
          st \in TableStatsSamples :
           LET ed == IF failed THEN ErrorData ELSE ExplainData(ilines, steps)
           IN  staticLog' =
                   [query |-> q, explain |-> ed,
                    warnings |-> AnalysisWarnings(q, ed, st)]
    /\ UNCHANGED <<guideLog, seen_recommendations>>

NextGuide ==
    \/ GuideAnalyzeQuery

NextStatic ==
    \/ AnalyzeWithExplain

(***************************************************************************)
(* The monitoring loop of start_monitoring and the collect_metrics         *)
(* command it calls                                                        *)
(***************************************************************************)

\* values of --interval, in seconds
IntervalSamples == {0, 90, 120}

\* seconds the clock advanced during one collect_metrics run; negative when
\* the clock was set back
ElapsedSamples == {-30, 0, 30, 90, 120, 200}

\* what can happen inside one collect_metrics run: nothing, or an exception
\* of get_or_create (OperationalError), of the connection (NetworkError), of
\* the telemetry query (ServerException), of the processing of a row
\* (NameError), or Ctrl+C (KeyboardInterrupt)
CycleOutcomes ==
    {"ok", "OperationalError", "NetworkError", "ServerException",
     "NameError", "KeyboardInterrupt"}

\* the classes `except Exception` of collect_metrics.handle catches
ExceptionKinds ==
    {"OperationalError", "NetworkError", "ServerException", "NameError"}

\* a handler that catches the errors of the driver only
CaughtDriverErrorsOnly(outcome) == outcome \in ClickhouseErrorKinds

\* collect_metrics.handle: `except Exception as e` matches the exception
CaughtByHandle(outcome) == outcome \in ExceptionKinds

\* interval // 60
LookbackMinutes(seconds) == seconds \div 60

\* the sleep time without the lower bound
SleepTimeUnbounded(seconds, spent) == seconds - spent

\* max(interval - elapsed, 0)
SleepTime(seconds, spent) ==
    IF seconds - spent > 0 THEN seconds - spent ELSE 0

\* top of `while True`: start_time is taken and call_command starts
\* collect_metrics
StartCycle ==
    /\ UNCHANGED nonMonitorVars
    /\ mpc = "top"
    /\ mpc' = "collecting"
    /\ lookback_minutes' = LookbackMinutes(interval)
    /\ inFlight' = inFlight + 1
    /\ prevOutcome' = cycleOutcome
    /\ cycleOutcome' = "running"
    /\ UNCHANGED <<interval, elapsed, sleep_time, lastWait>>

\* collect_metrics.handle ends: normally, also after an exception its
\* handler caught; an exception it does not catch leaves call_command, and
\* the loop with it
CollectReturns ==
    /\ UNCHANGED nonMonitorVars
    /\ mpc = "collecting"
    /\ \E outcome \in CycleOutcomes :
           /\ cycleOutcome' = outcome
           /\ mpc' = IF outcome = "ok" \/ CaughtByHandle(outcome)
                     THEN "returned"
                     ELSE IF outcome = "KeyboardInterrupt" THEN "stopped"
                     ELSE "crashed"
    /\ inFlight' = inFlight - 1
    /\ UNCHANGED <<interval, lookback_minutes, elapsed, sleep_time,
                   prevOutcome, lastWait>>

\* elapsed and sleep_time are computed; `if sleep_time > 0` decides between
\* time.sleep and the next iteration
ComputeSleep ==
    /\ UNCHANGED nonMonitorVars
    /\ mpc = "returned"
    /\ \E spent \in ElapsedSamples :
           /\ elapsed' = spent
           /\ sleep_time' = SleepTime(interval, spent)
           /\ mpc' = IF SleepTime(interval, spent) > 0
                     THEN "sleeping" ELSE "top"
           /\ lastWait' = IF SleepTime(interval, spent) > 0
                          THEN "slept" ELSE "skipped"
    /\ UNCHANGED <<interval, lookback_minutes, inFlight, cycleOutcome,
                   prevOutcome>>

\* time.sleep(sleep_time) returns
WakeUp ==
    /\ UNCHANGED nonMonitorVars
    /\ mpc = "sleeping"
    /\ mpc' = "top"
    /\ UNCHANGED <<interval, lookback_minutes, elapsed, sleep_time, inFlight,
                   cycleOutcome, prevOutcome, lastWait>>

\* Ctrl+C outside collect_metrics: `except KeyboardInterrupt` ends the loop
Interrupt ==
    /\ UNCHANGED nonMonitorVars
    /\ mpc \in {"top", "returned", "sleeping"}
    /\ mpc' = "stopped"
    /\ UNCHANGED <<interval, lookback_minutes, elapsed, sleep_time, inFlight,
                   cycleOutcome, prevOutcome, lastWait>>

NextMonitor ==
    \/ StartCycle
    \/ CollectReturns
    \/ ComputeSleep
    \/ WakeUp
    \/ Interrupt

(***************************************************************************)
(* Specifications                                                          *)
(***************************************************************************)

\* start_monitoring before the first iteration of its loop
MonitorInitial ==
    /\ mpc = "top"
    /\ lookback_minutes = 0
    /\ elapsed = 0
    /\ sleep_time = 0
    /\ inFlight = 0
    /\ cycleOutcome = "none"
    /\ prevOutcome = "none"
    /\ lastWait = "none"

\* no text analysed yet
GuideInitial ==
    /\ guideLog = <<>>
    /\ seen_recommendations = {}
    /\ staticLog = InitialStaticLog

\* empty tables, no run in save_table_analysis yet
OverlapInitial ==
    /\ ovTables = <<>>
    /\ ovRecs = <<>>
    /\ ovRun = [p \in OverlapRuns |-> IdleRun]

\* the result tables before the first analysis run
StoreInitial ==
    /\ analysisResults = <<>>
    /\ tableAnalyses = <<>>
    /\ indexRecs = <<>>
    /\ today = 0
    /\ passes = 0
    /\ passLog = InitialPassLog
    /\ storedOn = <<>>
    /\ tableSaves = 0
    /\ detections = [k \in RecKeys |-> 0]

\* analyze_with_explain has built its analysis dict and calls
\* get_explain_plan
AnalyzerInitial ==
    /\ apc = "indexes"
    /\ indexes_lines = <<>>
    /\ plan_lines = <<>>
    /\ pipeline_steps = 0
    /\ explain_data = NoExplainData
    /\ complexity_score = 0
    /\ report_score = -1
    /\ explainLog = <<>>

\* a SlowQuery row as create_slow_query_records inserts it
TriageInitial ==
    /\ status = "new"
    /\ assigned_to = "none"
    /\ analysis_started_at = 0
    /\ optimized_at = 0
    /\ recorded = {}
    /\ clock = 0
    /\ tLog = InitialTriageLog

\* the collector before its first run, with empty tables
CollInitial ==
    /\ queryLogs = <<>>
    /\ slowQueries = <<>>
    /\ instances = {}
    /\ cpc = "idle"
    /\ dry_run = FALSE
    /\ tRows = <<>>
    /\ rowIdx = 1
    /\ slow_queries = <<>>
    /\ stats = InitialStats
    /\ runs = 0
    /\ runLog = InitialRunLog
    /\ prevLog = InitialPrevLog
    /\ lastOp = NoOp

\* a ClickHouseClient right after __init__, before any use
ExecInitial ==
    /\ client = 0
    /\ driversCreated = 0
    /\ pc = "idle"
    /\ attempt = 0
    /\ sendLog = <<>>
    /\ sleptAfter = {}
    /\ slept = 0
    /\ result = NoResult
    /\ session = "none"
    /\ exitPath = "none"
    /\ disconnectLog = "none"
    /\ calls = 0

\* ClickHouseClient(instance_name, max_retries, retry_delay)
InitExec ==
    /\ max_retries \in (-1) .. MaxRetriesBound
    /\ retry_delay \in 0 .. MaxDelay
    /\ ExecInitial
    /\ CollInitial
    /\ TriageInitial
    /\ AnalyzerInitial
    /\ StoreInitial
    /\ OverlapInitial
    /\ GuideInitial
    /\ MonitorInitial
    /\ interval = 0

SpecExec == InitExec /\ [][NextExec]_vars

\* the collector builds its client as ClickHouseClient(instance.name)
InitColl ==
    /\ max_retries = DefaultMaxRetries
    /\ retry_delay = DefaultRetryDelay
    /\ ExecInitial
    /\ CollInitial
    /\ TriageInitial
    /\ AnalyzerInitial
    /\ StoreInitial
    /\ OverlapInitial
    /\ GuideInitial
    /\ MonitorInitial
    /\ interval = 0

SpecColl == InitColl /\ [][NextColl]_vars

InitTriage ==
    /\ InitColl

SpecTriage == InitTriage /\ [][NextTriage]_vars

InitAnalyzer ==
    /\ InitColl

SpecAnalyzer == InitAnalyzer /\ [][NextAnalyzer]_vars

InitStore ==
    /\ InitColl

SpecStore == InitStore /\ [][NextStore]_vars

InitOverlap ==
    /\ InitColl

SpecOverlap == InitOverlap /\ [][NextOverlap]_vars

InitGuide ==
    /\ InitColl

SpecGuide == InitGuide /\ [][NextGuide]_vars

InitStatic ==
    /\ InitColl

SpecStatic == InitStatic /\ [][NextStatic]_vars

\* start_monitoring --interval N
InitMonitor ==
    /\ max_retries = DefaultMaxRetries
    /\ retry_delay = DefaultRetryDelay
    /\ ExecInitial
    /\ CollInitial
    /\ TriageInitial
    /\ AnalyzerInitial
    /\ StoreInitial
    /\ OverlapInitial
    /\ GuideInitial
    /\ MonitorInitial
    /\ interval \in IntervalSamples

SpecMonitor == InitMonitor /\ [][NextMonitor]_vars

\* the loop is one thread that goes on unless interrupted, and a
\* collect_metrics run ends: every step of the loop that can be taken is
\* taken; Ctrl+C may never come
FairMonitor ==
    /\ WF_vars(StartCycle)
    /\ WF_vars(CollectReturns)
    /\ WF_vars(ComputeSleep)
    /\ WF_vars(WakeUp)

SpecMonitorFair == InitMonitor /\ [][NextMonitor]_vars /\ FairMonitor

(***************************************************************************)
(* Claims about the executor (checked under SpecExec)                      *)
(***************************************************************************)

\* an execute_query call has returned, and every attempt it made reached the
\* driver and ended in a driver-level error
ExhaustedCall ==
    /\ pc = "returned"
    /\ max_retries >= 0
    /\ Len(sendLog) >= 1
    /\ \A i \in 1 .. Len(sendLog) : sendLog[i].outcome \in ClickhouseErrorKinds

\* C1: for every max_retries = N >= 0 and every retry delay, when the driver
\* raises a driver-level error on every attempt, execute_query makes exactly
\* N + 1 attempts, sleeps after each attempt but the last (N sleeps of
\* retry_delay), and returns a QueryResult with an error and no rows/columns.
C1_ExactlyNPlusOneAttempts ==
    ExhaustedCall =>
        /\ Len(sendLog) = max_retries + 1
        /\ sleptAfter = 0 .. (max_retries - 1)
        /\ slept = max_retries * retry_delay
        /\ result.kind = "QueryResult"
        /\ result.error
        /\ result.rows = 0
        /\ result.cols = 0

\* three failed attempts with max_retries = 2, two sleeps
C1_Witness ==
    /\ ExhaustedCall
    /\ max_retries = 2
    /\ Len(sendLog) = 3
    /\ sleptAfter = {0, 1}
    /\ result = ErrorResult

\* the returned call failed: it never reached the driver, or its last
\* attempt raised
CallFailed ==
    \/ sendLog = <<>>
    \/ sendLog[Len(sendLog)].outcome # "ok"

\* C2: whatever fails and whatever max_retries is configured, a call of
\* execute_query returns a QueryResult, and a failed call returns one with
\* an error and no rows.
C2_AlwaysReturnsQueryResult ==
    pc = "returned" =>
        /\ result.kind = "QueryResult"
        /\ CallFailed => (result.error /\ result.rows = 0)

\* C3: an error that is not a transport failure (malformed SQL rejected by
\* the engine, or a non-driver exception) ends the call at once: no attempt
\* and no sleep follows it, and the call returns the error.
C3_QueryErrorNotRetried ==
    \A i \in 1 .. Len(sendLog) :
        sendLog[i].outcome \in {"ServerException", "OtherException"} =>
            /\ i = Len(sendLog)
            /\ (i - 1) \notin sleptAfter
            /\ pc = "returned"
            /\ result.error

\* C4: the attempt that follows an attempt failed by a dropped connection
\* (NetworkError) is sent on a newly built driver connection, not on the
\* object that failed.
C4_RetryOnNewConnection ==
    \A i \in 1 .. Len(sendLog) - 1 :
        sendLog[i].outcome = "NetworkError" =>
            sendLog[i + 1].client # sendLog[i].client

\* C5: once the with-block is left, on any path, disconnect() has run, the
\* client holds no connection, and a failing driver disconnect was logged
\* and not raised.
C5_SessionReleasesConnection ==
    session = "exited" =>
        /\ client = 0
        /\ disconnectLog \in {"noop", "ok", "warned"}

\* the block was left by an exception and the driver's disconnect failed
C5_Witness ==
    /\ session = "exited"
    /\ exitPath = "exception"
    /\ disconnectLog = "warned"
    /\ client = 0

(***************************************************************************)
(* Claims about the collector (checked under SpecColl)                     *)
(***************************************************************************)

\* a run has ended and the run before it was a run too, both not dry runs,
\* and both were given the same rows by the slow-query request
TwoRunsSameRows ==
    /\ cpc = "idle"
    /\ runs >= 2
    /\ ~dry_run
    /\ ~prevLog.dry_run
    /\ runLog.sameRows

\* the second run: no new case reported, no record and no case added
SecondRunAddsNothing ==
    /\ runLog.end = "returned" => stats.new_slow_queries = 0
    /\ Len(queryLogs) = runLog.qlBefore
    /\ Len(slowQueries) = runLog.sqBefore

CasesOf(pk) == {i \in 1 .. Len(slowQueries) : slowQueries[i].query_log = pk}

\* C7: there is at most one QueryLog record per query_id; a row whose
\* query_id is already stored sets duration_ms and read_rows of the stored
\* record to the row's values and adds no record; no record has a second
\* case.
C7_UpsertByQueryId ==
    /\ \A i, j \in 1 .. Len(queryLogs) :
          queryLogs[i].query_id = queryLogs[j].query_id => i = j
    /\ lastOp.kind = "updated" =>
          /\ queryLogs[lastOp.pk].query_id = lastOp.data.query_id
          /\ queryLogs[lastOp.pk].duration_ms = lastOp.data.duration_ms
          /\ queryLogs[lastOp.pk].read_rows = lastOp.data.read_rows
          /\ Len(queryLogs) = lastOp.lenBefore
    /\ \A pk \in 1 .. Len(queryLogs) : Cardinality(CasesOf(pk)) <= 1

\* a stored query_id was collected again with another duration: the record
\* holds the new duration and still has its one case
C7_Witness ==
    /\ cpc = "idle"
    /\ runLog.end = "returned"
    /\ lastOp.kind = "updated"
    /\ lastOp.oldDuration # lastOp.data.duration_ms
    /\ queryLogs[lastOp.pk].duration_ms = lastOp.data.duration_ms
    /\ Cardinality(CasesOf(lastOp.pk)) = 1

\* C8: after every non-dry-run run, however it ends, each QueryLog record
\* the run created has exactly one case, in status new; and no record ever
\* has more than one case.
C8_CreatedRecordHasOneCase ==
    /\ (cpc = "idle" /\ runs >= 1 /\ ~dry_run) =>
          \A pk \in runLog.created :
              /\ Cardinality(CasesOf(pk)) = 1
              /\ \A i \in CasesOf(pk) : slowQueries[i].status = "new"
    /\ \A pk \in 1 .. Len(queryLogs) : Cardinality(CasesOf(pk)) <= 1

\* C9: a row that cannot be mapped or saved is dropped and counted: the run
\* goes on with the other rows, returns its statistics, and errors is the
\* number of rows that failed.
C9_RowErrorCountedBatchGoesOn ==
    (cpc = "idle" /\ runLog.rowErrors > 0) =>
        /\ runLog.end = "returned"
        /\ rowIdx = Len(tRows) + 1
        /\ stats.errors = runLog.rowErrors

\* C10: when the slow-query request fails, the run does not raise: it
\* returns statistics with no slow rows, no new cases and errors > 0.
C10_FailedQueryCounted ==
    (cpc = "idle" /\ runLog.outcome = "error") =>
        /\ runLog.end = "returned"
        /\ stats.slow_queries = 0
        /\ stats.new_slow_queries = 0
        /\ stats.errors > 0

\* C11: a dry run persists nothing: when it ends, every table (QueryLog,
\* SlowQuery and the others, here ClickHouseInstance) is as it was before
\* the command, and the statistics it returns have new_slow_queries = 0.
C11_DryRunPersistsNothing ==
    (cpc = "idle" /\ runs >= 1 /\ dry_run) =>
        /\ <<queryLogs, slowQueries, instances>> = runLog.tablesBefore
        /\ runLog.end = "returned" => stats.new_slow_queries = 0

(***************************************************************************)
(* Claims about the triage of a case (checked under SpecTriage)            *)
(***************************************************************************)

\* the edges of the triage state machine
AllowedEdges ==
    {<<"new", "in_analysis">>, <<"in_analysis", "waiting_feedback">>,
     <<"waiting_feedback", "optimized">>,
     <<"new", "ignored">>, <<"in_analysis", "ignored">>,
     <<"new", "cannot_optimize">>, <<"in_analysis", "cannot_optimize">>}

\* C12: a request changes the status of a case only along an edge of the
\* state machine; a case in optimized, ignored or cannot_optimize is never
\* changed, no step goes backwards and none skips a state.
C12_StatusFollowsEdges ==
    tLog.prevStatus # status => <<tLog.prevStatus, status>> \in AllowedEdges

\* C13: analysis_started_at and optimized_at are each written at most once
\* in the life of a case.
C13_TimestampsWrittenOnce ==
    /\ tLog.startedWrites <= 1
    /\ tLog.optimizedWrites <= 1

\* C14: on a case in status new, assigning an owner, and likewise recording
\* analysis notes, moves the case to in_analysis and leaves
\* analysis_started_at set.
C14_OwnerOrNotesStartAnalysis ==
    (tLog.action \in {"assign_to_me", "analyze"} /\ tLog.prevStatus = "new") =>
        (status = "in_analysis" /\ analysis_started_at # 0)

\* C15: recording the actual durations on a case in waiting_feedback moves
\* it to optimized and sets optimized_at if it was unset; so in every
\* reachable state a case in status optimized has optimized_at set.
C15_OptimizedHasTimestamp ==
    /\ (tLog.action = "save_results" /\ tLog.prevStatus = "waiting_feedback") =>
           (status = "optimized" /\ optimized_at # 0)
    /\ status = "optimized" => optimized_at # 0

(***************************************************************************)
(* Claims about the analyzer (checked under SpecAnalyzer)                  *)
(***************************************************************************)

\* C16: the complexity score of analyze_with_explain and the one of
\* _calculate_complexity_score are integers in 0 .. 100 whatever the flags
\* and the number of pipeline steps are.
C16_ScoreInRange ==
    /\ apc \in {"report", "done"} => complexity_score \in 0 .. 100
    /\ apc = "done" => report_score \in 0 .. 100

\* both routines have scored an analysis with the three flags set and more
\* than 100 pipeline steps: the largest sum
C16_Witness ==
    /\ apc = "done"
    /\ explain_data.has_full_scan
    /\ explain_data.has_sorting
    /\ explain_data.has_aggregation
    /\ explain_data.pipeline_complexity > 100
    /\ complexity_score = 100
    /\ report_score = 100

\* C17: the score of analyze_with_explain is 30 for a full scan + 15 for
\* sorting + 20 for aggregation + (35 above 100 pipeline steps, else 20
\* above 50, else 10 above 20, else 0), clamped to 100; it agrees with
\* _calculate_complexity_score on every input.
C17_AnalyzeScoreIsReportScore ==
    (apc = "done" /\ ~explain_data.error) =>
        /\ complexity_score = report_score
        /\ complexity_score =
               LET p == explain_data.pipeline_complexity
                   sum == (IF explain_data.has_full_scan THEN 30 ELSE 0)
                          + (IF explain_data.has_sorting THEN 15 ELSE 0)
                          + (IF explain_data.has_aggregation THEN 20 ELSE 0)
                          + (IF p > 100 THEN 35 ELSE IF p > 50 THEN 20
                             ELSE IF p > 20 THEN 10 ELSE 0)
               IN  IF sum > 100 THEN 100 ELSE sum

\* C18: has_full_scan is true exactly when some line of the indexes output
\* reports 'Parts: r/t' with t > 10 and r >= t: true for 'Parts: 12/12',
\* false for 'Parts: 5/5' and 'Parts: 3/12', false without indexes output.
C18_FullScanIffAllPartsOfManyRead ==
    apc \in {"score", "report", "done"} /\ ~explain_data.error =>
        /\ explain_data.has_full_scan
           <=> \E i \in 1 .. Len(indexes_lines) :
                   /\ indexes_lines[i].parts # <<>>
                   /\ indexes_lines[i].parts[2] > 10
                   /\ indexes_lines[i].parts[1] >= indexes_lines[i].parts[2]
        /\ indexes_lines = <<Line(<<12, 12>>, FALSE, FALSE)>>
               => explain_data.has_full_scan
        /\ indexes_lines = <<Line(<<5, 5>>, FALSE, FALSE)>>
               => ~explain_data.has_full_scan
        /\ indexes_lines = <<Line(<<3, 12>>, FALSE, FALSE)>>
               => ~explain_data.has_full_scan
        /\ indexes_lines = <<>> => ~explain_data.has_full_scan

\* the flags have been derived from 'Parts: 5/5' followed by 'Parts: 12/12':
\* a full scan, found on the second line
C18_Witness ==
    /\ apc = "done"
    /\ indexes_lines = <<Line(<<5, 5>>, FALSE, FALSE),
                         Line(<<12, 12>>, FALSE, FALSE)>>
    /\ explain_data.has_full_scan

\* C19: has_sorting (has_aggregation) is true exactly when the marker occurs
\* in a line of the indexes output or of the logical-plan output; a marker
\* in the logical-plan lines alone sets the flag.
C19_MarkersFromIndexesOrPlan ==
    apc \in {"score", "report", "done"} /\ ~explain_data.error =>
        /\ explain_data.has_sorting
           <=> \/ \E i \in 1 .. Len(indexes_lines) : indexes_lines[i].sorting
               \/ \E i \in 1 .. Len(plan_lines) : plan_lines[i].sorting
        /\ explain_data.has_aggregation
           <=> \/ \E i \in 1 .. Len(indexes_lines) : indexes_lines[i].aggregating
               \/ \E i \in 1 .. Len(plan_lines) : plan_lines[i].aggregating

ResultsOfLog ==
    {i \in 1 .. Len(analysisResults) :
         analysisResults[i].query_log = QueryLogId}

\* C21: when an exception occurred during an analysis run, the result
\* stored for the record afterwards has exactly one warning, of priority
\* critical, complexity score 0, the three flags false and pipeline-step
\* count 0, whatever was stored before.
C21_FailureStoresOneCriticalWarning ==
    passLog.raised =>
        /\ ResultsOfLog # {}
        /\ \A i \in ResultsOfLog :
               /\ Len(analysisResults[i].warnings) = 1
               /\ analysisResults[i].warnings[1].priority = "critical"
               /\ analysisResults[i].complexity_score = 0
               /\ ~analysisResults[i].has_full_scan
               /\ ~analysisResults[i].has_sorting
               /\ ~analysisResults[i].has_aggregation
               /\ analysisResults[i].pipeline_complexity = 0

\* C22: there is at most one result per QueryLog record; a run without the
\* force flag that finds a result the freshness policy covers (stored less
\* than a day ago for AnalysisService, any result for the command) analyses
\* nothing and leaves the result as it is; every other run replaces the
\* stored result.
C22_OneResultReplacedUnlessFresh ==
    /\ Cardinality(ResultsOfLog) <= 1
    /\ passLog.entry # "none" =>
           IF /\ passLog.existed
              /\ ~passLog.force
              /\ \/ passLog.entry = "command"
                 \/ passLog.day - passLog.storedOnBefore < 1
           THEN /\ passLog.outcome = "skipped"
                /\ analysisResults = passLog.resultsBefore
           ELSE /\ passLog.outcome # "skipped"
                /\ \A i \in ResultsOfLog : storedOn[i] = passLog.day

\* C26: there is at most one IndexRecommendation per (table, column, kind),
\* and its query_count is the number of detections of that key made so far.
C26_OneRecommendationCountingDetections ==
    /\ \A i, j \in 1 .. Len(indexRecs) :
           (/\ indexRecs[i].table_analysis = indexRecs[j].table_analysis
            /\ indexRecs[i].column_name = indexRecs[j].column_name
            /\ indexRecs[i].index_type = indexRecs[j].index_type) => i = j
    /\ \A i \in 1 .. Len(indexRecs) :
           indexRecs[i].query_count =
               detections[<<tableAnalyses[indexRecs[i].table_analysis].table_name,
                            indexRecs[i].column_name,
                            indexRecs[i].index_type>>]

\* C27: there is at most one TableAnalysis per (table name, database), and
\* its query_count is the number of analyses that referenced the table and
\* saved its profile.
C27_OneProfileCountingAnalyses ==
    /\ \A i, j \in 1 .. Len(tableAnalyses) :
           (/\ tableAnalyses[i].table_name = tableAnalyses[j].table_name
            /\ tableAnalyses[i].database = tableAnalyses[j].database) => i = j
    /\ \A i \in 1 .. Len(tableAnalyses) :
           tableAnalyses[i].query_count = tableSaves

\* C29: the pipeline_complexity of the result an analysis run stores is the
\* number of EXPLAIN PIPELINE lines the engine returned in that run, which
\* is the pipeline_complexity the analyzer derived.
C29_StoredPipelineCountIsEngineCount ==
    passLog.outcome = "saved" =>
        /\ passLog.derivedSteps = passLog.engineSteps
        /\ \A i \in ResultsOfLog :
               analysisResults[i].pipeline_complexity = passLog.engineSteps

(***************************************************************************)
(* Claims about overlapping analysis runs (checked under SpecOverlap)      *)
(***************************************************************************)

\* C28: whatever the interleaving of two overlapping runs on the same
\* table, there are never two TableAnalysis rows of one (table, database)
\* nor two IndexRecommendation rows of one (table, column, kind).
C28_NoDuplicateRowsUnderOverlap ==
    /\ \A i, j \in 1 .. Len(ovTables) :
           (/\ ovTables[i].table_name = ovTables[j].table_name
            /\ ovTables[i].database = ovTables[j].database) => i = j
    /\ \A i, j \in 1 .. Len(ovRecs) :
           (/\ ovRecs[i].table_analysis = ovRecs[j].table_analysis
            /\ ovRecs[i].column_name = ovRecs[j].column_name
            /\ ovRecs[i].index_type = ovRecs[j].index_type) => i = j

(***************************************************************************)
(* Claims about the checks of the SQL text (checked under SpecGuide and    *)
(* SpecStatic)                                                             *)
(***************************************************************************)

\* the place of a rule in OPTIMIZATION_PATTERNS
RuleIndex(key) ==
    CHOOSE r \in DOMAIN OPTIMIZATION_PATTERNS :
        OPTIMIZATION_PATTERNS[r].pattern = key

\* the rules are listed in the order of OPTIMIZATION_PATTERNS, each at most
\* once
InRuleOrder(detected) ==
    \A i, j \in DOMAIN detected :
        i < j => RuleIndex(detected[i].pattern) < RuleIndex(detected[j].pattern)

\* C23: two analyze_query calls on the same text return the same
\* detected_patterns (rules in rule order, each at most once), the same
\* recommendations and the same summary, whatever calls were made in
\* between, and a call changes nothing of the executor nor of the persisted
\* tables.
C23_AdvisorDeterministicAndPure ==
    /\ [](/\ \A i, j \in DOMAIN guideLog :
                 guideLog[i].query = guideLog[j].query =>
                     guideLog[i].result = guideLog[j].result
          /\ \A i \in DOMAIN guideLog :
                 InRuleOrder(guideLog[i].result.detected_patterns))
    /\ [][guideLog' # guideLog =>
              UNCHANGED <<execVars, collVars, triageVars, analyzerVars,
                          storeVars, overlapVars>>]_vars

\* a text is analysed, another text with other rules is analysed, the first
\* text is analysed again
C23_Witness ==
    /\ Len(guideLog) = 3
    /\ guideLog[1].query = guideLog[3].query
    /\ guideLog[2].query # guideLog[1].query
    /\ guideLog[1].result.recommendations # <<>>
    /\ guideLog[2].result.recommendations # <<>>
    /\ Len(guideLog[2].result.detected_patterns) = 2

\* the types of the warnings of the last analyze_with_explain call with
\* their priorities
WarningsGiven ==
    {<<staticLog.warnings[i].type, staticLog.warnings[i].priority>> :
         i \in DOMAIN staticLog.warnings}

\* C24: whatever the EXPLAIN requests gave, a text that selects all columns
\* gets a select_all warning of priority medium and a text with LIMIT and
\* without ORDER BY gets a limit_no_order warning of priority low; the
\* advisor detects large_result on 'SELECT * FROM t LIMIT 10'.
C24_StaticChecksWhateverExplainGave ==
    staticLog.query # 0 =>
        /\ QueryTexts[staticLog.query].wildcard =>
               <<"select_all", "medium">> \in WarningsGiven
        /\ (/\ QueryTexts[staticLog.query].limit
            /\ ~QueryTexts[staticLog.query].order_by) =>
               <<"limit_no_order", "low">> \in WarningsGiven
        /\ staticLog.query = 1 =>
               \E i \in DOMAIN DetectedOf[1] :
                   DetectedOf[1][i].pattern = "large_result"

(***************************************************************************)
(* Claims about the monitoring loop (checked under SpecMonitor and         *)
(* SpecMonitorFair)                                                        *)
(***************************************************************************)

\* C25: at most one collect_metrics run is in progress, and only while the
\* loop is inside call_command; the sleep time is max(interval - elapsed, 0)
\* and never negative; after a run that took the interval or longer the
\* loop does not sleep.
C25_RunsNeverOverlapSleepNeverNegative ==
    /\ inFlight \in {0, 1}
    /\ inFlight = 1 <=> mpc = "collecting"
    /\ sleep_time >= 0
    /\ lastWait # "none" =>
           sleep_time = IF interval > elapsed THEN interval - elapsed ELSE 0
    /\ mpc = "sleeping" => sleep_time > 0 /\ lastWait = "slept"
    /\ (lastWait # "none" /\ elapsed >= interval) =>
           lastWait = "skipped" /\ mpc # "sleeping"

\* a run took longer than the interval and the next run has started without
\* a sleep in between
C25_Witness ==
    /\ mpc = "collecting"
    /\ prevOutcome = "ok"
    /\ interval > 0
    /\ elapsed > interval
    /\ lastWait = "skipped"
    /\ sleep_time = 0

\* C30: no exception raised inside a collect_metrics run ends the loop: the
\* run returns, and the loop starts the next cycle unless it is interrupted;
\* with the loop going on, cycles start again and again or the operator has
\* stopped the loop.
C30_FailedCycleNeverStopsLoop ==
    /\ [](mpc # "crashed")
    /\ \A kind \in ExceptionKinds :
           (mpc = "returned" /\ cycleOutcome = kind)
               ~> (mpc = "collecting" \/ mpc = "stopped")
    /\ ([]<><<StartCycle>>_vars) \/ <>(mpc = "stopped")

\* a cycle has started after a cycle in which the processing of a row
\* raised
C30_Witness ==
    /\ mpc = "collecting"
    /\ prevOutcome = "NameError"
    /\ inFlight = 1

====
